---- MODULE Spec2Model ----
(***************************************************************************)
(* Model of the request-to-drone assignment engine of the hospital drone   *)
(* dispatcher (src/service.py, with the helpers it calls in src/graph.py,  *)
(* src/energy.py, src/models.py and src/rrt_pathfinding.py).               *)
(*                                                                         *)
(* Units.  Energies are integers in units of 1e-8 kWh, distances in        *)
(* metres, payload weights in units of 10 g, speeds in units of 0.1 m/s.   *)
(* Every constant of the source is an exact integer in these units.        *)
(***************************************************************************)
EXTENDS Integers, Sequences, FiniteSets, Bags, TLC

(***************************************************************************)
(* Bounds of the model.                                                    *)
(***************************************************************************)
MaxRequests == 2
MaxDrones == 2
MaxCompleteCalls == 2
MaxThreads == 2
MaxEntries == 3
MaxQuantity == 3

(***************************************************************************)
(* The floor plan handed to the dispatcher by the bootstrapper: a fragment *)
(* of the plan of src/main.py (Emergency Room 1, ICU 2, charging station 9 *)
(* in the hallway between them) and one remote building 30 at the end of a *)
(* 2000 m pathway.  All four lie on one line; Coord is the x coordinate.   *)
(* UnknownLoc is a location id that is not a node of the graph.            *)
(***************************************************************************)
Nodes == {1, 2, 9, 30}
UnknownLoc == 99
Coord == (1 :> 0) @@ (9 :> 31) @@ (2 :> 62) @@ (30 :> 2062)
adjacency_list ==
    (1  :> << <<2, 62>>, <<9, 31>> >>) @@
    (2  :> << <<1, 62>>, <<30, 2000>>, <<9, 31>> >>) @@
    (30 :> << <<2, 2000>> >>) @@
    (9  :> << <<1, 31>>, <<2, 31>> >>)
CHARGING_STATION_LOCATIONS == <<9>>
Inf == 2000000000

None == 0

(***************************************************************************)
(* src/graph.py: weighted_dijkstra.  pq is the heap of (distance, node)    *)
(* tuples; heappop takes the lexicographically least tuple.                *)
(***************************************************************************)
PopMin(pq) ==
    CHOOSE e \in pq : \A f \in pq :
        (e[1] < f[1]) \/ (e[1] = f[1] /\ e[2] <= f[2])

RECURSIVE Relax(_, _, _, _)
Relax(st, cur, curDist, i) ==
    IF i > Len(adjacency_list[cur]) THEN st
    ELSE LET nb == adjacency_list[cur][i][1]
             w  == adjacency_list[cur][i][2]
             nd == curDist + w
         IN IF nb \in st.visited \/ ~(nd < st.dist[nb])
            THEN Relax(st, cur, curDist, i + 1)
            ELSE Relax([st EXCEPT !.dist[nb] = nd,
                                  !.prev[nb] = cur,
                                  !.pq = @ \cup {<<nd, nb>>}],
                       cur, curDist, i + 1)

RECURSIVE DijkstraLoop(_, _)
DijkstraLoop(st, target) ==
    IF st.pq = {} THEN st
    ELSE LET e    == PopMin(st.pq)
             rest == [st EXCEPT !.pq = @ \ {e}]
         IN IF e[2] \in st.visited THEN DijkstraLoop(rest, target)
            ELSE LET vis == [rest EXCEPT !.visited = @ \cup {e[2]}]
                 IN IF target # None /\ e[2] = target THEN vis
                    ELSE DijkstraLoop(Relax(vis, e[2], e[1], 1), target)

weighted_dijkstra(start, target) ==
    DijkstraLoop([dist    |-> [n \in Nodes |-> IF n = start THEN 0 ELSE Inf],
                  prev    |-> [n \in Nodes |-> None],
                  pq      |-> {<<0, start>>},
                  visited |-> {}], target)

RECURSIVE PathBack(_, _)
PathBack(prev, cur) ==
    IF cur = None THEN << >> ELSE Append(PathBack(prev, prev[cur]), cur)

(***************************************************************************)
(* src/graph.py: find_shortest_path, as a record [path, dist]; an unknown  *)
(* or unreachable end point gives the empty path and infinity.             *)
(***************************************************************************)
ComputeShortestPath(s, g) ==
    LET r == weighted_dijkstra(s, g)
    IN IF r.dist[g] = Inf THEN [path |-> << >>, dist |-> Inf]
       ELSE [path |-> PathBack(r.prev, g), dist |-> r.dist[g]]

ShortestPathTable == [s \in Nodes |-> [g \in Nodes |-> ComputeShortestPath(s, g)]]

find_shortest_path(s, g) ==
    IF s \notin Nodes \/ g \notin Nodes THEN [path |-> << >>, dist |-> Inf]
    ELSE ShortestPathTable[s][g]

AllDistTable == [s \in Nodes |-> weighted_dijkstra(s, None).dist]

(***************************************************************************)
(* src/graph.py: find_closest_drone_location.  drone_locations is a        *)
(* sequence; the first location at the least finite distance wins.         *)
(***************************************************************************)
RECURSIVE ClosestScan(_, _, _, _, _)
ClosestScan(dist, locs, i, best, bestDist) ==
    IF i > Len(locs) THEN best
    ELSE IF locs[i] \in DOMAIN dist /\ dist[locs[i]] < bestDist
         THEN ClosestScan(dist, locs, i + 1, locs[i], dist[locs[i]])
         ELSE ClosestScan(dist, locs, i + 1, best, bestDist)

find_closest_drone_location(requester_location_id, drone_locations) ==
    IF drone_locations = << >> THEN None
    ELSE IF requester_location_id \notin Nodes THEN None
    ELSE ClosestScan(AllDistTable[requester_location_id], drone_locations, 1, None, Inf)

(***************************************************************************)
(* src/graph.py: euclidean_distance, on the line the nodes lie on.         *)
(***************************************************************************)
euclidean_distance(a, b) ==
    IF Coord[a] >= Coord[b] THEN Coord[a] - Coord[b] ELSE Coord[b] - Coord[a]

(***************************************************************************)
(* src/energy.py and the configuration of src/service.py.                  *)
(***************************************************************************)
DRONE_ENERGY_BASE == 2000000
DRONE_ENERGY_PER_METER_BASE == 108
MIN_BATTERY_THRESHOLD == 2430000
BATTERY_CAPACITY == 200000000
DEFAULT_PAYLOAD == 50
MAX_PAYLOAD == 200
EMERGENCY_SPEED == 40
NORMAL_SPEED == 25
LOW_PRIORITY_SPEED == 15
DEFAULT_SPEED == 25

\* 0.8 x capacity, the charge target
ChargeTarget == (BATTERY_CAPACITY * 8) \div 10

\* payload multiplier x 1000: 0.9 at 0 kg, linear to 1.0 at 1 kg, to 1.33 at 2 kg
PayloadMultiplier(w) ==
    LET c == IF w < 0 THEN 0 ELSE IF w > MAX_PAYLOAD THEN MAX_PAYLOAD ELSE w
    IN IF c <= 0 THEN 900
       ELSE IF c <= 100 THEN 900 + c
       ELSE 1000 + (33 * (c - 100)) \div 10

\* calculate_drone_energy(distance_meters, payload_weight_kg)
calculate_drone_energy(distance, w) ==
    IF distance >= Inf THEN Inf
    ELSE DRONE_ENERGY_BASE + distance * DRONE_ENERGY_PER_METER_BASE * PayloadMultiplier(w)

\* Python's "x or 0.5" on a payload weight
OrDefault(w) == IF w = 0 THEN DEFAULT_PAYLOAD ELSE w

AddInf(a, b) == IF a >= Inf \/ b >= Inf \/ a >= Inf - b THEN Inf ELSE a + b

(***************************************************************************)
(* src/models.py: Priority (CTAS_I = 5 .. CTAS_V = 1).                     *)
(***************************************************************************)
CTAS_I == 5
CTAS_II == 4
CTAS_III == 3
CTAS_IV == 2
CTAS_V == 1
PriorityIsEmergency(p) == p >= 4

get_speed_for_priority(p) ==
    IF p = CTAS_I \/ p = CTAS_II THEN EMERGENCY_SPEED
    ELSE IF p = CTAS_III THEN NORMAL_SPEED
    ELSE LOW_PRIORITY_SPEED

(***************************************************************************)
(* Python floats (IEEE 754 binary64) on payload weights.  Every weight the *)
(* catalog computes lies within a few units in the last place of a whole   *)
(* number of 10 g units, so a float x is kept as the pair <<n, m>> with    *)
(*     100 * x = n + m * 2^-57          (n in 10 g units, m the deviation) *)
(* A float in [2^(j-7), 2^(j-6)) is a multiple of 2^(j-59), which is       *)
(* Grid(j) = 25 * 2^j of the units 2^-57 / 100 the pair counts in.  The    *)
(* result of +, - and * is the exact result rounded to the nearest float,  *)
(* ties to the even one.                                                   *)
(***************************************************************************)
Pow2(k) == 2 ^ k

\* 2^k modulo 25; 2^20 is 1 modulo 25
Pow2Mod25(k) == (2 ^ (k % 20)) % 25

Grid(j) == 25 * Pow2(j)

\* the binade of the value n + m * 2^-57 (n >= 1), as the exponent j
RECURSIVE BinadeFrom(_, _, _)
BinadeFrom(n, m, j) ==
    IF 100 * Pow2(j + 1) < 128 * n \/ (100 * Pow2(j + 1) = 128 * n /\ m >= 0)
    THEN BinadeFrom(n, m, j + 1)
    ELSE j

\* (n * 2^57 + m) modulo 25 * 2^j
Residue(n, m, j) == (Pow2(j) * ((n * Pow2Mod25(57 - j)) % 25) + m) % Grid(j)

\* round-to-nearest-even of the exact value n + m * 2^-57; a value below
\* one unit is a difference of two floats and is exact
FloatRound(n, m) ==
    IF n < 1 THEN <<n, m>>
    ELSE LET j == BinadeFrom(n, m, 0)
             r == Residue(n, m, j)
             odd == Residue(n, m, j + 1) >= Grid(j)
         IN IF 2 * r < Grid(j) \/ (2 * r = Grid(j) /\ ~odd)
            THEN <<n, m - r>>
            ELSE <<n, m + Grid(j) - r>>

FloatLiteral(n) == FloatRound(n, 0)
FloatAdd(a, b) == FloatRound(a[1] + b[1], a[2] + b[2])
FloatSub(a, b) == FloatRound(a[1] - b[1], a[2] - b[2])
FloatTimesInt(a, q) == FloatRound(a[1] * q, a[2] * q)
FloatLess(a, b) == a[1] < b[1] \/ (a[1] = b[1] /\ a[2] < b[2])

\* the exponent e with 2^e <= k < 2^(e+1), for k >= 1
RECURSIVE Log2Floor(_)
Log2Floor(k) == IF k < 2 THEN 0 ELSE 1 + Log2Floor(k \div 2)

\* int(a / b) for floats a >= 0, b > 0.  The quotient is rounded to a float
\* before it is truncated: when a is within rounding of k * b from below,
\* the rounded quotient is k if it lies within half a spacing of k.
FloatDivToInt(a, b) ==
    LET k == a[1] \div b[1]
        d == a[2] - k * b[2]
        e == Log2Floor(k)
        half == IF k = Pow2(e) THEN b[1] * Pow2(e + 3) ELSE b[1] * Pow2(e + 4)
    IN IF a[1] % b[1] # 0 \/ d >= 0 \/ k = 0 THEN k
       ELSE IF 0 - d < half \/ (0 - d = half /\ b[2] >= 0) THEN k
       ELSE k - 1

(***************************************************************************)
(* src/items.py: ItemCatalog.  ITEMS holds three items of the catalog      *)
(* (weights in units of 10 g); UnlistedItem is an id the catalog does not  *)
(* hold.  An item_quantities dict is the sequence of its <<item id,        *)
(* quantity>> entries in insertion order.                                  *)
(***************************************************************************)
ITEMS ==
    [emerg_iv_kit |-> [weight_kg |-> 20, emergency_priority |-> 10, routine_priority |-> 6],
     emerg_splint |-> [weight_kg |-> 30, emergency_priority |-> 7, routine_priority |-> 5],
     food_meal    |-> [weight_kg |-> 40, emergency_priority |-> 4, routine_priority |-> 7]]
UnlistedItem == "unlisted_item"
MAX_PAYLOAD_CAPACITY_KG == <<200, 0>>

\* get_item_by_id(item_id) is not None
IsItem(item_id) == item_id \in DOMAIN ITEMS
ItemWeightTable == [item_id \in DOMAIN ITEMS |-> FloatLiteral(ITEMS[item_id].weight_kg)]
ItemWeight(item_id) == ItemWeightTable[item_id]

\* dict.get(item_id, 0) and dict[item_id] = quantity on an ordered dict
DictGet(dict, item_id) ==
    IF \E i \in 1 .. Len(dict) : dict[i][1] = item_id
    THEN dict[CHOOSE i \in 1 .. Len(dict) : dict[i][1] = item_id][2]
    ELSE 0
DictSet(dict, item_id, quantity) ==
    IF \E i \in 1 .. Len(dict) : dict[i][1] = item_id
    THEN [i \in 1 .. Len(dict) |->
             IF dict[i][1] = item_id THEN <<item_id, quantity>> ELSE dict[i]]
    ELSE Append(dict, <<item_id, quantity>>)

RECURSIVE TotalWeightFrom(_, _, _)
TotalWeightFrom(item_quantities, i, total_weight) ==
    IF i > Len(item_quantities) THEN total_weight
    ELSE IF IsItem(item_quantities[i][1]) /\ item_quantities[i][2] > 0
         THEN TotalWeightFrom(item_quantities, i + 1,
                  FloatAdd(total_weight,
                      FloatTimesInt(ItemWeight(item_quantities[i][1]),
                                    item_quantities[i][2])))
         ELSE TotalWeightFrom(item_quantities, i + 1, total_weight)

calculate_total_weight(item_quantities) == TotalWeightFrom(item_quantities, 1, <<0, 0>>)

\* validate_payload(item_quantities)[0]
validate_payload(item_quantities) ==
    FloatLess(<<0, 0>>, calculate_total_weight(item_quantities))

\* the sort key (-priority_score, total_weight) of prioritize_items
KeyLess(x, y) ==
    x.priority_score > y.priority_score
        \/ (x.priority_score = y.priority_score
               /\ FloatLess(x.total_weight, y.total_weight))

\* list.sort is stable: an entry goes behind the entries it does not precede
RECURSIVE SortedInsert(_, _)
SortedInsert(sorted, x) ==
    IF sorted = << >> THEN <<x>>
    ELSE IF KeyLess(x, Head(sorted)) THEN <<x>> \o sorted
    ELSE <<Head(sorted)>> \o SortedInsert(Tail(sorted), x)

RECURSIVE PrioritizeFrom(_, _, _, _)
PrioritizeFrom(item_quantities, patient_critical, i, prioritized) ==
    IF i > Len(item_quantities) THEN prioritized
    ELSE IF IsItem(item_quantities[i][1]) /\ item_quantities[i][2] > 0
         THEN PrioritizeFrom(item_quantities, patient_critical, i + 1,
                  SortedInsert(prioritized,
                      [item_id |-> item_quantities[i][1],
                       quantity |-> item_quantities[i][2],
                       total_weight |-> FloatTimesInt(ItemWeight(item_quantities[i][1]),
                                                      item_quantities[i][2]),
                       priority_score |->
                           IF patient_critical
                           THEN ITEMS[item_quantities[i][1]].emergency_priority
                           ELSE ITEMS[item_quantities[i][1]].routine_priority]))
         ELSE PrioritizeFrom(item_quantities, patient_critical, i + 1, prioritized)

prioritize_items(item_quantities, patient_critical) ==
    PrioritizeFrom(item_quantities, patient_critical, 1, << >>)

\* lines 180-183 and 195-198: the current payload is saved and a new one begun
StartNewPayload(st) ==
    [payloads |-> IF st.current_payload # << >>
                  THEN Append(st.payloads, st.current_payload)
                  ELSE st.payloads,
     current_payload |-> << >>,
     current_weight |-> <<0, 0>>]

AddUnits(st, item_id, units) ==
    [st EXCEPT !.current_payload = DictSet(@, item_id, DictGet(@, item_id) + units),
               !.current_weight = FloatAdd(@, FloatTimesInt(ItemWeight(item_id), units))]

Min(a, b) == IF a <= b THEN a ELSE b
Max(a, b) == IF a >= b THEN a ELSE b

\* lines 175-208: the while loop over the units of one item; st is st0 after
\* the test of line 178
RECURSIVE SplitUnits(_, _, _)
SplitFitting(st, item_id, remaining_units, units_fitting) ==
    IF units_fitting > 0
    THEN SplitUnits(AddUnits(st, item_id, units_fitting), item_id,
                    remaining_units - units_fitting)
    ELSE IF FloatDivToInt(MAX_PAYLOAD_CAPACITY_KG, ItemWeight(item_id)) > 0
    THEN SplitUnits(AddUnits(StartNewPayload(st), item_id,
                        Min(remaining_units,
                            FloatDivToInt(MAX_PAYLOAD_CAPACITY_KG, ItemWeight(item_id)))),
                    item_id,
                    remaining_units
                        - Min(remaining_units,
                              FloatDivToInt(MAX_PAYLOAD_CAPACITY_KG, ItemWeight(item_id))))
    ELSE StartNewPayload(st)

SplitUnits(st, item_id, remaining_units) ==
    IF remaining_units <= 0 THEN st
    ELSE IF FloatLess(FloatSub(MAX_PAYLOAD_CAPACITY_KG, st.current_weight), FloatLiteral(1))
    THEN SplitFitting(StartNewPayload(st), item_id, remaining_units,
             Min(remaining_units,
                 FloatDivToInt(MAX_PAYLOAD_CAPACITY_KG, ItemWeight(item_id))))
    ELSE SplitFitting(st, item_id, remaining_units,
             Min(remaining_units,
                 FloatDivToInt(FloatSub(MAX_PAYLOAD_CAPACITY_KG, st.current_weight),
                               ItemWeight(item_id))))

RECURSIVE SplitItems(_, _, _)
SplitItems(st, prioritized_items, i) ==
    IF i > Len(prioritized_items) THEN st
    ELSE SplitItems(SplitUnits(st, prioritized_items[i].item_id,
                               prioritized_items[i].quantity),
                    prioritized_items, i + 1)

\* lines 209-212
SplitResult(st, item_quantities) ==
    IF StartNewPayload(st).payloads # << >> THEN StartNewPayload(st).payloads
    ELSE <<item_quantities>>

split_payload(item_quantities, patient_critical) ==
    IF item_quantities = << >> THEN << >>
    ELSE IF ~FloatLess(MAX_PAYLOAD_CAPACITY_KG, calculate_total_weight(item_quantities))
    THEN <<item_quantities>>
    ELSE SplitResult(
             SplitItems([payloads |-> << >>, current_payload |-> << >>,
                         current_weight |-> <<0, 0>>],
                        prioritize_items(item_quantities, patient_critical), 1),
             item_quantities)

(***************************************************************************)
(* src/rrt_pathfinding.py: plan_path_with_traffic_rules.  The sampling     *)
(* planner is randomised; the model keeps its two outcomes.  "rrt": the    *)
(* tree reaches the goal and the branch is mapped to the nearest graph     *)
(* nodes (start, the nodes along the segment, goal).  "fallback": the      *)
(* iteration budget is exhausted and the graph's shortest path is          *)
(* returned.  With start = goal both give the one-node path.               *)
(***************************************************************************)
PlannerOutcomes == {"rrt", "fallback"}

RECURSIVE OrderByDistance(_, _)
OrderByDistance(from, S) ==
    IF S = {} THEN << >>
    ELSE LET n == CHOOSE m \in S : \A k \in S :
                      euclidean_distance(from, m) <= euclidean_distance(from, k)
         IN <<n>> \o OrderByDistance(from, S \ {n})

plan_path_with_avoidance(start, goal, outcome) ==
    IF outcome = "fallback" THEN find_shortest_path(start, goal).path
    ELSE LET lo == IF Coord[start] <= Coord[goal] THEN Coord[start] ELSE Coord[goal]
             hi == IF Coord[start] <= Coord[goal] THEN Coord[goal] ELSE Coord[start]
             between == {n \in Nodes : lo < Coord[n] /\ Coord[n] < hi}
         IN IF start = goal THEN <<start>>
            ELSE <<start>> \o OrderByDistance(start, between) \o <<goal>>

plan_path_with_traffic_rules(start, goal, outcome) ==
    LET path == plan_path_with_avoidance(start, goal, outcome)
    IN IF Len(path) < 2 THEN find_shortest_path(start, goal).path ELSE path

\* sum of the graph distances of the legs of a route
RECURSIVE RouteDistance(_, _)
RouteDistance(route, i) ==
    IF i >= Len(route) THEN 0
    ELSE AddInf(find_shortest_path(route[i], route[i + 1]).dist,
                RouteDistance(route, i + 1))

\* _calculate_route_energy(route, payload_weights, speed)
RECURSIVE RouteEnergyFrom(_, _, _)
RouteEnergyFrom(route, weights, i) ==
    IF i >= Len(route) THEN 0
    ELSE LET leg == IF i <= Len(weights) THEN weights[i]
                    ELSE IF i > 1 /\ i - 1 <= Len(weights) THEN weights[i - 1]
                    ELSE DEFAULT_PAYLOAD
         IN AddInf(calculate_drone_energy(
                       find_shortest_path(route[i], route[i + 1]).dist, leg),
                   RouteEnergyFrom(route, weights, i + 1))

calculate_route_energy(route, weights) ==
    IF Len(route) < 2 THEN 0 ELSE RouteEnergyFrom(route, weights, 1)

(***************************************************************************)
(* State of one DroneAssignmentService (src/service.py, __init__).         *)
(*   requests         id -> Request; ids are 1 .. next_request_id - 1      *)
(*   drones           id -> Drone                                          *)
(*   priority_queue   the heap of pending requests, as the sequence of     *)
(*                    request ids in the order heappop yields them         *)
(*   active_flights   the insertion-ordered dict drone id -> flight entry, *)
(*                    as a sequence of entries carrying their key          *)
(*   timers           the bag of armed one-shot threading.Timer objects    *)
(*   lock             the thread holding self.lock, or None                *)
(*   total_energy_saved_kwh   the dispatcher energy total                  *)
(*   now              logical clock read by complete_request               *)
(*   pc, frame        position and local variables of each thread          *)
(*   direct_call      a direct call of a helper (ItemCatalog, the energy   *)
(*                    test of an interception, the graph): its arguments,  *)
(*                    how far it has come and its results                  *)
(***************************************************************************)
VARIABLES requests, drones, priority_queue, active_flights, timers, lock,
          total_energy_saved_kwh, next_request_id, next_drone_id, now,
          pc, frame, direct_call

vars == <<requests, drones, priority_queue, active_flights, timers, lock,
          total_energy_saved_kwh, next_request_id, next_drone_id, now,
          pc, frame, direct_call>>

Threads == 1 .. MaxThreads

\* the part of the state the dispatcher's helpers read and write
Service == [requests |-> requests, drones |-> drones,
            priority_queue |-> priority_queue,
            active_flights |-> active_flights, timers |-> timers]

Install(s) ==
    /\ requests' = s.requests
    /\ drones' = s.drones
    /\ priority_queue' = s.priority_queue
    /\ active_flights' = s.active_flights
    /\ timers' = s.timers

Timer(kind, id, dist, station) ==
    [kind |-> kind, id |-> id, dist |-> dist, station |-> station]

StartTimer(s, t) == [s EXCEPT !.timers = @ (+) SetToBag({t})]

\* active_flights as a dict
HasFlight(flights, d) == \E i \in 1 .. Len(flights) : flights[i].drone = d
FlightIndex(flights, d) == CHOOSE i \in 1 .. Len(flights) : flights[i].drone = d
GetFlight(flights, d) == flights[FlightIndex(flights, d)]
SetFlight(flights, entry) ==
    IF HasFlight(flights, entry.drone)
    THEN [flights EXCEPT ![FlightIndex(flights, entry.drone)] = entry]
    ELSE Append(flights, entry)
\* "del self.active_flights[d]" dropped
DelFlightKept(flights, d) == flights

\* del self.active_flights[d]
DelFlight(flights, d) ==
    LET k == FlightIndex(flights, d)
    IN [i \in 1 .. Len(flights) - 1 |-> IF i < k THEN flights[i] ELSE flights[i + 1]]

InSeq(x, sq) == \E i \in 1 .. Len(sq) : sq[i] = x
Last(sq) == sq[Len(sq)]
\* list.insert(k, x) with a 0-based index k
InsertAt(sq, k, x) ==
    IF k >= Len(sq) THEN Append(sq, x)
    ELSE SubSeq(sq, 1, k) \o <<x>> \o SubSeq(sq, k + 1, Len(sq))

(***************************************************************************)
(* src/service.py: _send_drone_to_charging.  The branch for an invalid     *)
(* return route (lines 946-965) cannot be taken: the drone is not at a     *)
(* station there, so it differs from the nearest station and the route to  *)
(* it has at least two nodes.                                              *)
(***************************************************************************)
RECURSIVE NearestStationScan(_, _, _)
NearestStationScan(from, i, best) ==
    IF i > Len(CHARGING_STATION_LOCATIONS) THEN best
    ELSE LET sp == find_shortest_path(from, CHARGING_STATION_LOCATIONS[i])
         IN IF sp.dist < best.dist
            THEN NearestStationScan(from, i + 1,
                     [station |-> CHARGING_STATION_LOCATIONS[i], dist |-> sp.dist,
                      route |-> IF sp.path # << >> THEN sp.path
                                ELSE <<from, CHARGING_STATION_LOCATIONS[i]>>])
            ELSE NearestStationScan(from, i + 1, best)

NearestStation(from) ==
    LET r == NearestStationScan(from, 1, [station |-> None, dist |-> Inf, route |-> << >>])
    IN IF r.station = None
       THEN [station |-> CHARGING_STATION_LOCATIONS[1], dist |-> Inf,
             route |-> <<from, CHARGING_STATION_LOCATIONS[1]>>]
       ELSE r

send_drone_to_charging(s, d) ==
    IF d \notin DOMAIN s.drones THEN s
    ELSE
    LET drone == s.drones[d] IN
    IF InSeq(drone.current_location_id, CHARGING_STATION_LOCATIONS)
    THEN LET charged == [drone EXCEPT !.status = "charging",
                                      !.is_charging = TRUE,
                                      !.assigned_request_id = None,
                                      !.current_payload_weight_kg = 0,
                                      !.delivery_route = << >>,
                                      !.current_speed_m_per_sec = 0]
             s1 == [s EXCEPT !.drones[d] = charged]
         IN IF ChargeTarget - drone.battery_level_kwh > 0
            THEN StartTimer(s1, Timer("complete_charging", d, 0, None))
            ELSE s1
    ELSE LET near == NearestStation(drone.current_location_id)
             return_distance == RouteDistance(near.route, 1)
             returning == [drone EXCEPT !.status = "returning_to_charging",
                                        !.assigned_request_id = None,
                                        !.current_payload_weight_kg = 0,
                                        !.delivery_route = near.route,
                                        !.current_speed_m_per_sec = NORMAL_SPEED]
             entry == [drone |-> d, route |-> near.route, payload_weight |-> 0,
                       request_ids |-> << >>, speed |-> NORMAL_SPEED,
                       is_emergency |-> FALSE, is_return_trip |-> TRUE]
         IN StartTimer([s EXCEPT !.drones[d] = returning,
                                 !.active_flights = SetFlight(@, entry)],
                       Timer("arrive", d, return_distance, near.station))

(***************************************************************************)
(* src/service.py: _get_available_drone_locations, in drone id order.      *)
(***************************************************************************)
\* the test of lines 251-255 without the status
EligibleWhateverStatus(drone) ==
    /\ ~drone.is_charging
    /\ drone.battery_level_kwh >= MIN_BATTERY_THRESHOLD

\* lines 251-255 and 554-558
Eligible(drone) ==
    /\ drone.status = "available"
    /\ ~drone.is_charging
    /\ drone.battery_level_kwh >= MIN_BATTERY_THRESHOLD

RECURSIVE AvailableFrom(_, _, _)
AvailableFrom(s, for_emergency, d) ==
    IF d \notin DOMAIN s.drones THEN << >>
    ELSE IF Eligible(s.drones[d]) /\ s.drones[d].emergency_drone = for_emergency
         THEN <<s.drones[d].current_location_id>> \o AvailableFrom(s, for_emergency, d + 1)
         ELSE AvailableFrom(s, for_emergency, d + 1)

get_available_drone_locations(s, for_emergency) == AvailableFrom(s, for_emergency, 1)

(***************************************************************************)
(* src/service.py: _assign_drone_to_request.  Returns the new service      *)
(* state and whether the request was assigned.                             *)
(***************************************************************************)
RequestIsEmergency(req) == req.emergency \/ PriorityIsEmergency(req.priority)

\* the loop of lines 553-560 taking the last drone, in id order
LastDroneAt(s, loc, is_emergency) ==
    LET cands == {d \in DOMAIN s.drones :
                     /\ Eligible(s.drones[d])
                     /\ s.drones[d].current_location_id = loc
                     /\ s.drones[d].emergency_drone = is_emergency}
    IN IF cands = {} THEN None ELSE CHOOSE d \in cands : \A e \in cands : d >= e

\* the loop of lines 553-560: the first drone, in id order, at the location
FirstDroneAt(s, loc, is_emergency) ==
    LET cands == {d \in DOMAIN s.drones :
                     /\ Eligible(s.drones[d])
                     /\ s.drones[d].current_location_id = loc
                     /\ s.drones[d].emergency_drone = is_emergency}
    IN IF cands = {} THEN None ELSE CHOOSE d \in cands : \A e \in cands : d <= e

\* the test of line 575 with <= in place of <
BatteryTooLowAtReserve(level, required_energy) ==
    level <= AddInf(required_energy, MIN_BATTERY_THRESHOLD)

\* line 575: the battery does not cover the trip and the reserve
BatteryTooLow(level, required_energy) ==
    level < AddInf(required_energy, MIN_BATTERY_THRESHOLD)

\* lines 545-562: the drone chosen for request r, None when there is none
select_drone(s, r) ==
    LET is_emergency == RequestIsEmergency(s.requests[r])
        available_locations == get_available_drone_locations(s, is_emergency)
        closest_loc_id == find_closest_drone_location(s.requests[r].requester_location_id,
                                                      available_locations)
    IN [closest_loc_id |-> closest_loc_id,
        drone |-> IF available_locations = << >> \/ closest_loc_id = None THEN None
                  ELSE FirstDroneAt(s, closest_loc_id, is_emergency)]

\* lines 563-598: the route is planned from closest_loc_id, and drone d is
\* committed to request r or sent to charging
commit_drone(s, r, d, closest_loc_id, outcome) ==
    LET req == s.requests[r]
        is_emergency == RequestIsEmergency(req)
        planned == plan_path_with_traffic_rules(closest_loc_id,
                                                req.requester_location_id, outcome)
        direct == find_shortest_path(closest_loc_id, req.requester_location_id)
        distance == IF Len(planned) >= 2 THEN RouteDistance(planned, 1) ELSE direct.dist
        path == IF Len(planned) < 2 THEN direct.path ELSE planned
        payload_weight == OrDefault(req.payload_weight_kg)
        required_energy == calculate_drone_energy(distance, payload_weight)
        priority_speed == get_speed_for_priority(req.priority)
    IN
    IF BatteryTooLow(s.drones[d].battery_level_kwh, required_energy)
    THEN [s |-> send_drone_to_charging(s, d), ok |-> FALSE]
    ELSE
    LET committed == [s.drones[d] EXCEPT
                         !.current_speed_m_per_sec = priority_speed,
                         !.status = "assigned",
                         !.assigned_request_id = r,
                         !.current_payload_weight_kg = payload_weight,
                         !.delivery_route = path]
        entry == [drone |-> d, route |-> path, payload_weight |-> payload_weight,
                  request_ids |-> <<r>>, speed |-> priority_speed,
                  is_emergency |-> is_emergency, is_return_trip |-> FALSE]
    IN [s |-> StartTimer(
                 [s EXCEPT !.drones[d] = committed,
                           !.requests[r].status = "assigned",
                           !.requests[r].assigned_drone_id = d,
                           !.active_flights = SetFlight(@, entry)],
                 Timer("auto_complete", r, 0, None)),
        ok |-> TRUE]

assign_drone_to_request(s, r, outcome) ==
    IF select_drone(s, r).drone = None
    THEN [s |-> s, ok |-> FALSE]
    ELSE commit_drone(s, r, select_drone(s, r).drone,
                      select_drone(s, r).closest_loc_id, outcome)

(***************************************************************************)
(* src/service.py: _evaluate_multi_stop_efficiency.  The pickup and the    *)
(* delivery location are both the request's location (no caller passes     *)
(* secondary_pickup_location).  raised: a KeyError from self.graph.nodes.  *)
(***************************************************************************)
\* lines 420-431: insert the pickup after the route node nearest to it
RECURSIVE NearestIndexScan(_, _, _, _, _)
NearestIndexScan(path, pickup, i, bestIdx, bestDist) ==
    IF i > Len(path) THEN bestIdx
    ELSE IF euclidean_distance(path[i], pickup) < bestDist
         THEN NearestIndexScan(path, pickup, i + 1, i, euclidean_distance(path[i], pickup))
         ELSE NearestIndexScan(path, pickup, i + 1, bestIdx, bestDist)

\* lines 436-443: the payload list built from the combined route
CombinedWeights(route, pickup, current_destination, current_payload, w) ==
    [i \in 1 .. Len(route) |->
        IF route[i] = pickup THEN current_payload + w
        ELSE IF route[i] = current_destination THEN w
        ELSE 0]

AppendIfMissing(route, loc) == IF InSeq(loc, route) THEN route ELSE Append(route, loc)

\* lines 391-399: the pickup goes before or after the current destination
InsertPickup(current_route, current_destination, pickup_loc) ==
    IF InSeq(pickup_loc, current_route) THEN current_route
    ELSE IF find_shortest_path(current_route[1], pickup_loc).dist
              < find_shortest_path(current_destination, pickup_loc).dist
         THEN InsertAt(current_route, 1, pickup_loc)
         ELSE InsertAt(current_route, 2, pickup_loc)

RaisedEvaluation == [raised |-> TRUE, should_accept |-> FALSE, energy_difference |-> 0,
                     combined_route |-> << >>]

\* lines 448-466: energy saving, battery check and the acceptance test
\* energy_difference > -0.1 * baseline_energy or energy_difference > 0
JudgeCombined(battery_level, baseline_energy, combined_energy, combined_route) ==
    LET both_finite == baseline_energy < Inf /\ combined_energy < Inf
        energy_difference == IF both_finite THEN baseline_energy - combined_energy
                             ELSE IF combined_energy >= Inf THEN 0 - Inf ELSE Inf
        battery_sufficient ==
            battery_level >= AddInf(combined_energy, MIN_BATTERY_THRESHOLD)
        better == IF ~both_finite THEN combined_energy < Inf
                  ELSE IF energy_difference > 0 THEN TRUE
                  ELSE IF 0 - energy_difference > BATTERY_CAPACITY THEN FALSE
                  ELSE 10 * (0 - energy_difference) < baseline_energy
    IN [raised |-> FALSE, should_accept |-> battery_sufficient /\ better,
        energy_difference |-> energy_difference,
        combined_route |-> IF battery_sufficient /\ better THEN combined_route
                           ELSE << >>]

\* lines 376-389 and 436-447: the two energies of a combined route
EvaluateRoute(battery_level, flight_info, current_destination, loc, w, combined_route) ==
    JudgeCombined(battery_level,
        AddInf(calculate_route_energy(flight_info.route, <<flight_info.payload_weight, 0>>),
               calculate_drone_energy(find_shortest_path(loc, loc).dist, w)),
        calculate_route_energy(combined_route,
            CombinedWeights(combined_route, loc, current_destination,
                            flight_info.payload_weight, w)),
        combined_route)

\* lines 420-434: the planner's path, with the pickup and delivery put back
EvaluateReplanned(battery_level, flight_info, current_destination, loc, w, with_delivery, rrt_path) ==
    IF Len(rrt_path) < 2
    THEN EvaluateRoute(battery_level, flight_info, current_destination, loc, w,
                       with_delivery)
    ELSE IF ~InSeq(loc, rrt_path) /\ loc \notin Nodes THEN RaisedEvaluation
    ELSE EvaluateRoute(battery_level, flight_info, current_destination, loc, w,
             AppendIfMissing(
                 IF InSeq(loc, rrt_path) THEN rrt_path
                 ELSE InsertAt(rrt_path, NearestIndexScan(rrt_path, loc, 1, 1, Inf), loc),
                 loc))

\* lines 405-419: replanning of the combined route between its two ends
EvaluateCombined(battery_level, flight_info, current_destination, loc, w, with_delivery, outcome) ==
    IF Len(with_delivery) < 2
    THEN EvaluateRoute(battery_level, flight_info, current_destination, loc, w,
                       with_delivery)
    ELSE IF with_delivery[1] \notin Nodes \/ Last(with_delivery) \notin Nodes
    THEN RaisedEvaluation
    ELSE EvaluateReplanned(battery_level, flight_info, current_destination, loc, w,
             with_delivery,
             plan_path_with_traffic_rules(with_delivery[1], Last(with_delivery), outcome))

evaluate_multi_stop_efficiency(s, d, current_destination, req, outcome) ==
    EvaluateCombined(s.drones[d].battery_level_kwh, GetFlight(s.active_flights, d),
        current_destination, req.requester_location_id,
        OrDefault(req.payload_weight_kg),
        AppendIfMissing(
            InsertPickup(GetFlight(s.active_flights, d).route, current_destination,
                         req.requester_location_id),
            req.requester_location_id),
        outcome)

(***************************************************************************)
(* src/service.py: _check_and_intercept_request.  Returns the new service  *)
(* state, whether the request was grafted onto a flight, and whether the   *)
(* evaluation raised.  After the loop the variable flight_info still holds *)
(* the last entry of active_flights; the replanned route starts there.     *)
(***************************************************************************)
Candidate(s, i) ==
    LET f == s.active_flights[i] IN
    /\ f.drone \in DOMAIN s.drones
    /\ ~s.drones[f.drone].emergency_drone
    /\ s.drones[f.drone].status \in {"assigned", "in_transit"}
    /\ Len(f.route) >= 2

NoEvaluation == [raised |-> FALSE, should_accept |-> FALSE, energy_difference |-> 0,
                 combined_route |-> << >>]

\* lines 489-493: keep the evaluation that saves the most energy
BetterOf(best, drone, ev) ==
    IF ev.raised THEN [raised |-> TRUE, drone |-> None, ev |-> ev]
    ELSE IF ev.should_accept
            /\ (best.drone = None \/ ev.energy_difference > best.ev.energy_difference)
         THEN [raised |-> FALSE, drone |-> drone, ev |-> ev]
         ELSE best

RECURSIVE InterceptScan(_, _, _, _, _)
InterceptScan(s, req, outcome, i, best) ==
    IF i > Len(s.active_flights) \/ best.raised THEN best
    ELSE IF ~Candidate(s, i) THEN InterceptScan(s, req, outcome, i + 1, best)
    ELSE CHOOSE scanned \in
             {InterceptScan(s, req, outcome, i + 1, better) :
                  better \in {BetterOf(best, s.active_flights[i].drone, evaluation) :
                      evaluation \in {evaluate_multi_stop_efficiency(s,
                          s.active_flights[i].drone, s.active_flights[i].route[2],
                          req, outcome)}}} : TRUE

\* lines 496-541: graft the request onto the flight of drone d
Intercept(s, r, d, flight_info, route, payload, speed) ==
    [s |-> [s EXCEPT !.active_flights =
                         SetFlight(@, [flight_info EXCEPT !.route = route,
                                                          !.payload_weight = payload,
                                                          !.request_ids = Append(@, r),
                                                          !.speed = speed]),
                     !.requests[r].status = "assigned",
                     !.requests[r].assigned_drone_id = d,
                     !.drones[d].current_speed_m_per_sec = speed,
                     !.drones[d].delivery_route = route,
                     !.drones[d].current_payload_weight_kg = payload],
     ok |-> TRUE, raised |-> FALSE]

InterceptReplanned(s, r, d, combined_route_ids, rrt_path) ==
    Intercept(s, r, d, GetFlight(s.active_flights, d),
              IF rrt_path # << >> THEN rrt_path ELSE combined_route_ids,
              GetFlight(s.active_flights, d).payload_weight
                  + OrDefault(s.requests[r].payload_weight_kg),
              get_speed_for_priority(s.requests[r].priority))

InterceptBetween(s, r, d, combined_route_ids, current_loc, goal_loc_id, outcome) ==
    IF current_loc \notin Nodes \/ goal_loc_id \notin Nodes
    THEN [s |-> s, ok |-> FALSE, raised |-> TRUE]
    ELSE InterceptReplanned(s, r, d, combined_route_ids,
             plan_path_with_traffic_rules(current_loc, goal_loc_id, outcome))

InterceptBest(s, r, outcome, best) ==
    IF best.raised THEN [s |-> s, ok |-> FALSE, raised |-> TRUE]
    ELSE IF best.drone = None THEN [s |-> s, ok |-> FALSE, raised |-> FALSE]
    ELSE InterceptBetween(s, r, best.drone, best.ev.combined_route,
             IF Last(s.active_flights).route # << >>
             THEN Last(s.active_flights).route[1]
             ELSE s.drones[best.drone].current_location_id,
             IF best.ev.combined_route # << >> THEN Last(best.ev.combined_route)
             ELSE s.requests[r].requester_location_id,
             outcome)

check_and_intercept_request(s, r, outcome) ==
    IF PriorityIsEmergency(s.requests[r].priority)
    THEN [s |-> s, ok |-> FALSE, raised |-> FALSE]
    ELSE CHOOSE intercepted \in
             {InterceptBest(s, r, outcome, best) :
                  best \in {InterceptScan(s, s.requests[r], outcome, 1,
                      [raised |-> FALSE, drone |-> None, ev |-> NoEvaluation])}} : TRUE

(***************************************************************************)
(* src/models.py: Request.calculate_vital_priority_score on the requests   *)
(* of the model, which have no patient record.  The score is the sum of    *)
(* the clinical severity term (x 30), the life years term (x 25, years     *)
(* capped at 50) and the waiting-time term, which lies between 0 and       *)
(* MaxWaitTerm.  Scores and clinical_severity_score are in units of        *)
(* 0.0001 (a severity of 1.0 is 10000); expected_life_years_gained is a    *)
(* whole number of years (None counts as 0).  Two scores within            *)
(* ScoreEpsilon (0.01) of each other count as equal (line 334).            *)
(* waiting_time_minutes is set by _update_waiting_times from the wall      *)
(* clock, which the model does not keep: of two requests of one CTAS class *)
(* the older never has the smaller waiting-time term, and by how much it   *)
(* is larger depends on the time between the calls.  "waited" says that    *)
(* the time was long enough for the waiting-time term to decide; requests  *)
(* of one call were made at the same moment, and for CTAS I (target        *)
(* response time 0) the term is left out.                                  *)
(***************************************************************************)
MaxWaitTerm == 400000
ScoreEpsilon == 100

VitalBase(req) ==
    30 * req.clinical_severity_score
        + (250000 * Min(req.expected_life_years_gained, 50)) \div 50

\* the requests one create_request call made: the parent and its children
SameCall(reqs, a, b) ==
    \/ a = b
    \/ reqs[a].parent_request_id = b
    \/ reqs[b].parent_request_id = a
    \/ reqs[a].parent_request_id # None
           /\ reqs[a].parent_request_id = reqs[b].parent_request_id

\* lines 331-335: the request with the greater score, None when the scores
\* are within 0.01 of each other
ScoreFavours(reqs, older, younger, waited) ==
    IF VitalBase(reqs[older]) - VitalBase(reqs[younger]) > ScoreEpsilon THEN older
    ELSE IF VitalBase(reqs[younger]) - VitalBase(reqs[older]) > MaxWaitTerm THEN younger
    ELSE IF waited /\ reqs[older].priority # CTAS_I /\ ~SameCall(reqs, older, younger)
    THEN older
    ELSE IF VitalBase(reqs[younger]) - VitalBase(reqs[older]) > ScoreEpsilon THEN younger
    ELSE None

\* lines 337-351: the tie-break of split orders, then the timestamp (ids are
\* issued in time order)
SplitOrderLt(reqs, a, b) ==
    IF reqs[a].parent_request_id # None /\ reqs[b].parent_request_id # None
    THEN IF reqs[a].parent_request_id = reqs[b].parent_request_id
         THEN reqs[a].delivery_sequence < reqs[b].delivery_sequence
         ELSE reqs[a].parent_request_id < reqs[b].parent_request_id
    ELSE IF reqs[a].parent_request_id # None THEN FALSE
    ELSE IF reqs[b].parent_request_id # None THEN TRUE
    ELSE a < b

\* Request.__lt__ without the comparison of the CTAS class (lines 328-329
\* dropped)
RequestLtByAge(reqs, a, b, waited) == a < b

\* src/models.py: Request.__lt__
RequestLt(reqs, a, b, waited) ==
    IF reqs[a].priority # reqs[b].priority
    THEN reqs[a].priority > reqs[b].priority
    ELSE IF ScoreFavours(reqs, Min(a, b), Max(a, b), waited) # None
    THEN ScoreFavours(reqs, Min(a, b), Max(a, b), waited) = a
    ELSE SplitOrderLt(reqs, a, b)

\* heapq.heappush: the popping order after the push
RECURSIVE heappush(_, _, _, _)
heappush(reqs, queue, r, waited) ==
    IF queue = << >> THEN <<r>>
    ELSE IF RequestLt(reqs, r, Head(queue), waited) THEN <<r>> \o queue
    ELSE <<Head(queue)>> \o heappush(reqs, Tail(queue), r, waited)

RECURSIVE heapify(_, _, _)
heapify(reqs, queue, waited) ==
    IF queue = << >> THEN << >>
    ELSE heappush(reqs, heapify(reqs, Tail(queue), waited), Head(queue), waited)

RECURSIVE PushAll(_, _, _, _)
PushAll(reqs, queue, items, waited) ==
    IF items = << >> THEN queue
    ELSE PushAll(reqs, heappush(reqs, queue, Head(items), waited), Tail(items), waited)

RECURSIVE SelectPending(_, _)
SelectPending(reqs, queue) ==
    IF queue = << >> THEN << >>
    ELSE IF reqs[Head(queue)].status = "pending"
         THEN <<Head(queue)>> \o SelectPending(reqs, Tail(queue))
         ELSE SelectPending(reqs, Tail(queue))

(***************************************************************************)
(* Threads.  A thread is idle, or inside one dispatcher operation.         *)
(*   create_store      create_request with its Request built (frame.request,*)
(*                the id read into frame.returns), before line 228         *)
(*   create_increment  create_request before line 230                     *)
(*   pass_begin   about to run _process_pending_requests                   *)
(*   pass_loop    inside its while loop, frame.temp_queue is temp_queue    *)
(*   assign_planning  inside _assign_drone_to_request with the drone       *)
(*                chosen: frame.request, frame.assigned_drone and          *)
(*                frame.closest_loc_id are its locals                      *)
(*   ac_acquire, arr_acquire, cc_acquire   a timer callback at its         *)
(*                "with self.lock" statement                               *)
(*   ac_body, arr_body, cc_body            the callback holding the lock   *)
(*   cancel_set   cancel_request after its test of the status              *)
(* frame.returns is the id create_request returns when its pass has ended  *)
(* (parent_request_id, line 206, or request.id, line 232).                 *)
(***************************************************************************)
IdleFrame == [id |-> None, dist |-> 0, station |-> None, temp_queue |-> << >>,
              returns |-> None, request |-> None, assigned_drone |-> None,
              closest_loc_id |-> None]

\* no direct call of the catalog has been made
NoCall == [pc |-> "none", item_quantities |-> << >>, patient_critical |-> FALSE,
           is_valid |-> FALSE, payloads |-> << >>]

AcquirePoints == {"ac_acquire", "arr_acquire", "cc_acquire"}

\* a thread that waits for the lock while the lock is held
Blocked(t) == pc[t] \in AcquirePoints /\ lock # None

\* sequential runs start an operation only when no other one is in progress
MayStart(sequential) ==
    sequential => \A t \in Threads : pc[t] = "idle" \/ Blocked(t)

IsFreeThread(t) ==
    /\ pc[t] = "idle"
    /\ \A u \in Threads : pc[u] = "idle" => t <= u

Finish(t) ==
    /\ pc' = [pc EXCEPT ![t] = "idle"]
    /\ frame' = [frame EXCEPT ![t] = IdleFrame]

Goto(t, label) == pc' = [pc EXCEPT ![t] = label]

Init ==
    /\ requests = << >>
    /\ drones = << >>
    /\ priority_queue = << >>
    /\ active_flights = << >>
    /\ timers = EmptyBag
    /\ lock = None
    /\ total_energy_saved_kwh = 0
    /\ next_request_id = 1
    /\ next_drone_id = 1
    /\ now = 1
    /\ pc = [t \in Threads |-> "idle"]
    /\ frame = [t \in Threads |-> IdleFrame]
    /\ direct_call = NoCall

(***************************************************************************)
(* Inputs of the public operations.                                        *)
(***************************************************************************)
\* <<location, emergency_drone, battery level>>: full after add_drone alone,
\* 80% after the bootstrapper's reset
DroneInputs(sequential) ==
    IF sequential
    THEN {1, 9} \X BOOLEAN \X {BATTERY_CAPACITY, ChargeTarget}
    ELSE {1, 9} \X {FALSE} \X {BATTERY_CAPACITY, ChargeTarget}
\* <<requester location, priority, emergency flag, clinical_severity_score,
\* expected_life_years_gained>>
RequestInputs(sequential) ==
    IF sequential
    THEN {1, 2, 30, UnknownLoc} \X {CTAS_II, CTAS_V} \X {FALSE} \X {None} \X {None}
    ELSE {2, 30} \X {CTAS_V} \X {FALSE} \X {None} \X {None}

\* payload_items: the bootstrapper's requests carry no payload map
PayloadInputs(sequential) == {<< >>}

\* payload maps of the requests of SpecIntake
LightPayload == << <<"emerg_iv_kit", 1>> >>
\* 2.0 kg; the float sum of the weights is 2.0
ExactPayload == << <<"emerg_iv_kit", 1>>, <<"emerg_splint", 2>>, <<"food_meal", 3>> >>
\* the same items in another order; the float sum is 2.0000000000000004
ReorderedPayload == << <<"emerg_splint", 2>>, <<"food_meal", 3>>, <<"emerg_iv_kit", 1>> >>
\* 2.1 kg
HeavyPayload == << <<"food_meal", 3>>, <<"emerg_splint", 3>> >>
UnlistedPayload == << <<UnlistedItem, 1>> >>

(***************************************************************************)
(* add_drone, followed by the bootstrapper's direct assignment of the      *)
(* battery level (src/main.py sets 80% of capacity after each add_drone).  *)
(* add_drone has no caller but the bootstrapper, which builds the fleet     *)
(* before the service takes its first request.                             *)
(***************************************************************************)
NewDrone(location_id, emergency_drone, level) ==
    [current_location_id |-> location_id, status |-> "available",
     assigned_request_id |-> None, emergency_drone |-> emergency_drone,
     battery_level_kwh |-> level, is_charging |-> FALSE,
     delivery_route |-> << >>, current_payload_weight_kg |-> 0,
     current_speed_m_per_sec |-> DEFAULT_SPEED]

add_drone(location_id, emergency_drone, level) ==
    /\ next_request_id = 1
    /\ next_drone_id <= MaxDrones
    /\ drones' = Append(drones, NewDrone(location_id, emergency_drone, level))
    /\ next_drone_id' = next_drone_id + 1
    /\ UNCHANGED <<requests, priority_queue, active_flights, timers, lock,
                   total_energy_saved_kwh, direct_call, next_request_id, now, pc, frame>>

(***************************************************************************)
(* create_request for a requester without a patient record (patient_id is  *)
(* None, so patient_critical is False).  Lines 79-82: only a payload that  *)
(* is not empty is validated.  Lines 159-232: one request per payload of   *)
(* the split, or the single request; each is stored and pushed, then the   *)
(* processing pass runs.  payload_weight_kg is the value of the property   *)
(* of that name (src/models.py), in units of 10 g.  call holds the         *)
(* arguments priority, emergency, clinical_severity_score and              *)
(* expected_life_years_gained; waited is read by the comparisons of        *)
(* heappush.                                                               *)
(***************************************************************************)
\* lines 79-82 and 163-164: the call raises ValueError
CreateRaises(payload_items) ==
    \/ payload_items # << >> /\ ~validate_payload(payload_items)
    \/ /\ FloatLess(MAX_PAYLOAD_CAPACITY_KG, calculate_total_weight(payload_items))
       /\ split_payload(payload_items, FALSE) = << >>

\* the payloads of the requests the call creates
RequestPayloads(payload_items) ==
    IF FloatLess(MAX_PAYLOAD_CAPACITY_KG, calculate_total_weight(payload_items))
    THEN split_payload(payload_items, FALSE)
    ELSE <<payload_items>>

\* Request.payload_weight_kg (src/models.py), in units of 10 g
PayloadWeight(payload) == calculate_total_weight(payload)[1]

\* line 195 with the default total_deliveries = 1 of src/models.py
TotalDeliveriesDefault(split_payloads) == 1

\* line 195: total_deliveries
TotalDeliveries(split_payloads) == Len(split_payloads)

NewRequest(requester_location_id, call, payload, parent, partial, sequence, total) ==
    [status |-> "pending",
     requester_location_id |-> requester_location_id,
     priority |-> call.priority,
     emergency |-> call.emergency \/ PriorityIsEmergency(call.priority),
     clinical_severity_score |-> call.clinical_severity_score,
     expected_life_years_gained |-> call.expected_life_years_gained,
     assigned_drone_id |-> None, completed_at |-> None,
     payload_weight_kg |-> PayloadWeight(payload),
     payload_items |-> payload,
     parent_request_id |-> parent,
     is_partial_delivery |-> partial,
     delivery_sequence |-> sequence,
     total_deliveries |-> total]

NewRequests(first_id, requester_location_id, call, split_payloads) ==
    [idx \in 1 .. Len(split_payloads) |->
        NewRequest(requester_location_id, call, split_payloads[idx],
                   IF idx = 1 THEN None ELSE first_id,
                   Len(split_payloads) > 1, idx, TotalDeliveries(split_payloads))]

create_request(sequential, t, requester_location_id, call, payload_items, waited) ==
    /\ MayStart(sequential)
    /\ IsFreeThread(t)
    /\ ~CreateRaises(payload_items)
    /\ \E split_payloads \in {RequestPayloads(payload_items)} :
          /\ next_request_id + Len(split_payloads) - 1 <= MaxRequests
          /\ \E created \in {NewRequests(next_request_id, requester_location_id,
                                          call, split_payloads)} :
                /\ requests' = requests \o created
                /\ priority_queue' =
                       PushAll(requests \o created, priority_queue,
                               [idx \in 1 .. Len(created) |-> next_request_id + idx - 1],
                               waited)
                /\ next_request_id' = next_request_id + Len(created)
    /\ Goto(t, "pass_begin")
    /\ frame' = [frame EXCEPT ![t].returns = next_request_id]
    /\ UNCHANGED <<drones, active_flights, timers, lock, total_energy_saved_kwh, direct_call,
                   next_drone_id, now>>

(***************************************************************************)
(* create_request for a request without payload (lines 207-232), as the    *)
(* steps between which another thread can run: the method takes no lock.   *)
(* create_request_begin builds the Request with the id it reads from       *)
(* next_request_id (lines 209-227); create_request_store puts it into the  *)
(* table under that id and pushes it (lines 228-229, the dict assignment   *)
(* replaces an entry of the same id); create_request_increment is line     *)
(* 230, after which the pass runs.  The table of the model is a sequence:  *)
(* a call that would store beyond its end by more than one is not          *)
(* followed.                                                               *)
(***************************************************************************)
create_request_begin(t, requester_location_id, call) ==
    /\ pc[t] = "idle"
    /\ next_request_id <= MaxRequests
    /\ next_request_id <= Len(requests) + 1
    /\ frame' = [frame EXCEPT
                     ![t].returns = next_request_id,
                     ![t].request = NewRequests(next_request_id, requester_location_id,
                                                call, << << >> >>)[1]]
    /\ Goto(t, "create_store")
    /\ UNCHANGED <<requests, drones, priority_queue, active_flights, timers, lock,
                   total_energy_saved_kwh, direct_call, next_request_id, next_drone_id, now>>

create_request_store(t, waited) ==
    /\ pc[t] = "create_store"
    /\ \E stored \in {IF frame[t].returns \in DOMAIN requests
                       THEN [requests EXCEPT ![frame[t].returns] = frame[t].request]
                       ELSE Append(requests, frame[t].request)} :
          /\ requests' = stored
          /\ priority_queue' = heappush(stored, priority_queue, frame[t].returns, waited)
    /\ Goto(t, "create_increment")
    /\ UNCHANGED <<drones, active_flights, timers, lock, total_energy_saved_kwh,
                   direct_call, next_request_id, next_drone_id, now, frame>>

create_request_increment(t) ==
    /\ pc[t] = "create_increment"
    /\ next_request_id' = next_request_id + 1
    /\ Goto(t, "pass_begin")
    /\ UNCHANGED <<requests, drones, priority_queue, active_flights, timers, lock,
                   total_energy_saved_kwh, direct_call, next_drone_id, now, frame>>

(***************************************************************************)
(* _process_pending_requests, lines 621-627: the queue is rebuilt from its *)
(* pending entries.                                                        *)
(***************************************************************************)
process_pending_begin(t, waited) ==
    /\ pc[t] = "pass_begin"
    /\ priority_queue' = heapify(requests, SelectPending(requests, priority_queue), waited)
    /\ frame' = [frame EXCEPT ![t].temp_queue = << >>]
    /\ Goto(t, "pass_loop")
    /\ UNCHANGED <<requests, drones, active_flights, timers, lock,
                   total_energy_saved_kwh, direct_call, next_request_id, next_drone_id, now>>

\* the end of an operation that ran the pass: a callback leaves its with-block
ReleaseIfHeld(t) == lock' = IF lock = t THEN None ELSE lock

(***************************************************************************)
(* _process_pending_requests, lines 628-643: one iteration of the loop.    *)
(* An exception raised by the interception check leaves the loop with the  *)
(* popped request and temp_queue dropped.                                  *)
(***************************************************************************)
process_pending_step(t, outcome) ==
    /\ pc[t] = "pass_loop"
    /\ priority_queue # << >>
    /\ LET r == Head(priority_queue)
           popped == [Service EXCEPT !.priority_queue = Tail(priority_queue)]
           intercepted ==
               IF PriorityIsEmergency(requests[r].priority)
               THEN [s |-> popped, ok |-> FALSE, raised |-> FALSE]
               ELSE check_and_intercept_request(popped, r, outcome)
           assigned == assign_drone_to_request(popped, r, outcome)
       IN IF requests[r].status # "pending"
          THEN Install(popped) /\ UNCHANGED <<pc, frame, lock>>
          ELSE IF intercepted.raised
          THEN Install(popped) /\ Finish(t) /\ ReleaseIfHeld(t)
          ELSE IF intercepted.ok
          THEN Install(intercepted.s) /\ UNCHANGED <<pc, frame, lock>>
          ELSE IF assigned.ok
          THEN Install(assigned.s) /\ UNCHANGED <<pc, frame, lock>>
          ELSE /\ Install(assigned.s)
               /\ frame' = [frame EXCEPT ![t].temp_queue = Append(@, r)]
               /\ UNCHANGED <<pc, lock>>
    /\ UNCHANGED <<total_energy_saved_kwh, direct_call, next_request_id, next_drone_id, now>>

(***************************************************************************)
(* One iteration of the loop with the thread switched out inside           *)
(* _assign_drone_to_request, where no lock is held.  assign_select is the  *)
(* iteration up to the choice of the drone (lines 628-636 and 545-562) for *)
(* a request that is not intercepted; assign_commit is the rest of it      *)
(* (lines 563-598 and 638-643), run on the dispatcher as the other threads *)
(* have left it, with the drone chosen before.                             *)
(***************************************************************************)
assign_select(t, outcome) ==
    /\ pc[t] = "pass_loop"
    /\ priority_queue # << >>
    /\ LET r == Head(priority_queue)
           popped == [Service EXCEPT !.priority_queue = Tail(priority_queue)]
       IN /\ requests[r].status = "pending"
          /\ ~check_and_intercept_request(popped, r, outcome).raised
          /\ ~check_and_intercept_request(popped, r, outcome).ok
          /\ select_drone(popped, r).drone # None
          /\ frame' = [frame EXCEPT
                           ![t].request = r,
                           ![t].assigned_drone = select_drone(popped, r).drone,
                           ![t].closest_loc_id = select_drone(popped, r).closest_loc_id]
    /\ priority_queue' = Tail(priority_queue)
    /\ Goto(t, "assign_planning")
    /\ UNCHANGED <<requests, drones, active_flights, timers, lock,
                   total_energy_saved_kwh, direct_call, next_request_id, next_drone_id, now>>

assign_commit(t, outcome) ==
    /\ pc[t] = "assign_planning"
    /\ \E res \in {commit_drone(Service, frame[t].request, frame[t].assigned_drone,
                                 frame[t].closest_loc_id, outcome)} :
          /\ Install(res.s)
          /\ frame' = [frame EXCEPT
                           ![t].temp_queue = IF res.ok THEN @
                                             ELSE Append(@, frame[t].request),
                           ![t].request = None,
                           ![t].assigned_drone = None,
                           ![t].closest_loc_id = None]
    /\ Goto(t, "pass_loop")
    /\ UNCHANGED <<lock, total_energy_saved_kwh, direct_call, next_request_id,
                   next_drone_id, now>>

(***************************************************************************)
(* _process_pending_requests, lines 644-646: the unassigned requests are   *)
(* pushed back and the operation that ran the pass returns.                *)
(***************************************************************************)
process_pending_end(t, waited) ==
    /\ pc[t] = "pass_loop"
    /\ priority_queue = << >>
    /\ priority_queue' = PushAll(requests, priority_queue, frame[t].temp_queue, waited)
    /\ Finish(t)
    /\ ReleaseIfHeld(t)
    /\ UNCHANGED <<requests, drones, active_flights, timers,
                   total_energy_saved_kwh, direct_call, next_request_id, next_drone_id, now>>

(***************************************************************************)
(* complete_request, lines 661-740.  The request is marked completed and   *)
(* stamped before anything is checked.  When it has a drone, the energy    *)
(* figures are stored on the request and line 740 then assigns to          *)
(* payload_weight_kg, a read-only property of Request (src/models.py):     *)
(* the assignment raises AttributeError and lines 741-818 do not run.      *)
(* Without a drone the method goes straight to the pass of line 818.       *)
(***************************************************************************)
MarkCompleted(reqs, r, time) ==
    [reqs EXCEPT ![r].status = "completed", ![r].completed_at = time]

CompleteRaises(reqs, r) == reqs[r].assigned_drone_id # None

complete_request(sequential, t, request_id) ==
    /\ MayStart(sequential)
    /\ IsFreeThread(t)
    /\ now <= MaxCompleteCalls
    /\ request_id \in DOMAIN requests
    /\ requests' = MarkCompleted(requests, request_id, now)
    /\ now' = now + 1
    /\ IF CompleteRaises(requests, request_id)
       THEN UNCHANGED <<pc, frame>>
       ELSE Goto(t, "pass_begin") /\ UNCHANGED frame
    /\ UNCHANGED <<drones, priority_queue, active_flights, timers, lock,
                   total_energy_saved_kwh, direct_call, next_request_id, next_drone_id>>

(***************************************************************************)
(* cancel_request, lines 981-989 (an unknown id raises before any change). *)
(* The test of the status (line 987) and the assignment of the new status  *)
(* (line 988) are two steps of the calling thread.                         *)
(***************************************************************************)
\* the test of line 987 dropped
CancelAllowedAlways(status) == TRUE

\* line 987
CancelAllowed(status) == status = "pending"

cancel_request(sequential, t, request_id) ==
    /\ MayStart(sequential)
    /\ IsFreeThread(t)
    /\ request_id \in DOMAIN requests
    /\ IF CancelAllowed(requests[request_id].status)
       THEN /\ Goto(t, "cancel_set")
            /\ frame' = [frame EXCEPT ![t].id = request_id]
       ELSE UNCHANGED <<pc, frame>>
    /\ UNCHANGED <<requests, drones, priority_queue, active_flights, timers, lock,
                   total_energy_saved_kwh, direct_call, next_request_id,
                   next_drone_id, now>>

\* line 988
cancel_set(t) ==
    /\ pc[t] = "cancel_set"
    /\ requests' = [requests EXCEPT ![frame[t].id].status = "cancelled"]
    /\ Finish(t)
    /\ UNCHANGED <<drones, priority_queue, active_flights, timers, lock,
                   total_energy_saved_kwh, direct_call, next_request_id,
                   next_drone_id, now>>

(***************************************************************************)
(* A threading.Timer fires: its callback starts on a thread of its own and *)
(* reaches the "with self.lock" statement.                                 *)
(***************************************************************************)
timer_fires(sequential, t, tm) ==
    /\ MayStart(sequential)
    /\ IsFreeThread(t)
    /\ BagIn(tm, timers)
    /\ timers' = timers (-) SetToBag({tm})
    /\ frame' = [frame EXCEPT ![t] = [IdleFrame EXCEPT !.id = tm.id,
                                                       !.dist = tm.dist,
                                                       !.station = tm.station]]
    /\ Goto(t, CASE tm.kind = "auto_complete" -> "ac_acquire"
                 [] tm.kind = "arrive" -> "arr_acquire"
                 [] tm.kind = "complete_charging" -> "cc_acquire")
    /\ UNCHANGED <<requests, drones, priority_queue, active_flights, lock,
                   total_energy_saved_kwh, direct_call, next_request_id, next_drone_id, now>>

\* threading.Lock is not re-entrant: acquire waits while anyone holds it
acquire_lock(t) ==
    /\ pc[t] \in AcquirePoints
    /\ lock = None
    /\ lock' = t
    /\ Goto(t, CASE pc[t] = "ac_acquire" -> "ac_body"
                 [] pc[t] = "arr_acquire" -> "arr_body"
                 [] pc[t] = "cc_acquire" -> "cc_body")
    /\ UNCHANGED <<requests, drones, priority_queue, active_flights, timers,
                   total_energy_saved_kwh, direct_call, next_request_id, next_drone_id, now,
                   frame>>

(***************************************************************************)
(* _auto_complete_request, lines 825-838, holding the lock.                *)
(***************************************************************************)
auto_complete_request(t) ==
    /\ pc[t] = "ac_body"
    /\ LET r == frame[t].id IN
       IF r \notin DOMAIN requests \/ requests[r].status # "assigned"
       THEN /\ Finish(t) /\ lock' = None
            /\ UNCHANGED <<requests, now>>
       ELSE /\ requests' = MarkCompleted(requests, r, now)
            /\ now' = now + 1
            /\ IF CompleteRaises(requests, r)
               THEN Finish(t) /\ lock' = None
               ELSE Goto(t, "pass_begin") /\ UNCHANGED <<frame, lock>>
    /\ UNCHANGED <<drones, priority_queue, active_flights, timers,
                   total_energy_saved_kwh, direct_call, next_request_id, next_drone_id>>

\* Arrived without the clearing of delivery_route (line 925 dropped)
ArrivedRouteKept(drone, level, station) ==
    [drone EXCEPT !.battery_level_kwh = level,
                  !.current_location_id = station,
                  !.status = "charging",
                  !.is_charging = TRUE,
                  !.current_speed_m_per_sec = 0]

\* lines 919-926: the drone lands at the station and starts to charge
Arrived(drone, level, station) ==
    [drone EXCEPT !.battery_level_kwh = level,
                  !.current_location_id = station,
                  !.status = "charging",
                  !.is_charging = TRUE,
                  !.delivery_route = << >>,
                  !.current_speed_m_per_sec = 0]

\* Charged without the reset of is_charging (line 975 dropped)
ChargedFlagKept(drone) ==
    [drone EXCEPT !.battery_level_kwh = ChargeTarget,
                  !.status = "available"]

\* lines 974-976: the charge is complete
Charged(drone) ==
    [drone EXCEPT !.battery_level_kwh = ChargeTarget,
                  !.is_charging = FALSE,
                  !.status = "available"]

(***************************************************************************)
(* arrive_at_charging_station, lines 912-941, holding the lock.  With the  *)
(* battery already at the charge target it calls _complete_charging, which *)
(* starts by acquiring the lock the callback is holding.                   *)
(***************************************************************************)
arrive_at_charging_station(t) ==
    /\ pc[t] = "arr_body"
    /\ LET d == frame[t].id IN
       IF d \notin DOMAIN drones
       THEN /\ Finish(t) /\ lock' = None
            /\ UNCHANGED <<drones, active_flights, timers>>
       ELSE
       LET return_energy == calculate_drone_energy(frame[t].dist, 0)
           level == IF drones[d].battery_level_kwh - return_energy > 0
                    THEN drones[d].battery_level_kwh - return_energy ELSE 0
           energy_needed == ChargeTarget - level
       IN /\ drones' = [drones EXCEPT ![d] = Arrived(@, level, frame[t].station)]
          /\ active_flights' = IF HasFlight(active_flights, d)
                               THEN DelFlight(active_flights, d)
                               ELSE active_flights
          /\ IF energy_needed > 0
             THEN /\ timers' = timers (+) SetToBag({Timer("complete_charging", d, 0, None)})
                  /\ Finish(t) /\ lock' = None
             ELSE /\ Goto(t, "cc_acquire")
                  /\ UNCHANGED <<timers, frame, lock>>
    /\ UNCHANGED <<requests, priority_queue, total_energy_saved_kwh, direct_call,
                   next_request_id, next_drone_id, now>>

(***************************************************************************)
(* _complete_charging, lines 969-979: the drone is made available under    *)
(* the lock; the processing pass runs after the lock is released.          *)
(***************************************************************************)
complete_charging(t) ==
    /\ pc[t] = "cc_body"
    /\ LET d == frame[t].id IN
       IF d \notin DOMAIN drones
       THEN Finish(t) /\ UNCHANGED drones
       ELSE /\ drones' = [drones EXCEPT ![d] = Charged(@)]
            /\ Goto(t, "pass_begin") /\ UNCHANGED frame
    /\ lock' = None
    /\ UNCHANGED <<requests, priority_queue, active_flights, timers,
                   total_energy_saved_kwh, direct_call, next_request_id, next_drone_id, now>>

(***************************************************************************)
(* Specifications.  Spec runs the operations one at a time (a new call or  *)
(* callback starts only when every other thread is idle or blocked);       *)
(* SpecConcurrent lets caller and timer threads interleave.                *)
(***************************************************************************)
StepWith(sequential, drone_inputs, request_inputs, payload_inputs) ==
    \/ \E d \in drone_inputs : add_drone(d[1], d[2], d[3])
    \/ \E t \in Threads, r \in request_inputs, payload_items \in payload_inputs :
          \E waited \in BOOLEAN :
              create_request(sequential, t, r[1],
                  [priority |-> r[2], emergency |-> r[3],
                   clinical_severity_score |-> r[4],
                   expected_life_years_gained |-> r[5]],
                  payload_items, waited)
    \/ \E t \in Threads, r \in 1 .. MaxRequests : complete_request(sequential, t, r)
    \/ \E t \in Threads, r \in 1 .. MaxRequests : cancel_request(sequential, t, r)
    \/ \E t \in Threads : cancel_set(t)
    \/ \E t \in Threads : \E tm \in BagToSet(timers) : timer_fires(sequential, t, tm)
    \/ \E t \in Threads : acquire_lock(t)
    \/ \E t \in Threads : auto_complete_request(t)
    \/ \E t \in Threads : arrive_at_charging_station(t)
    \/ \E t \in Threads : complete_charging(t)
    \/ \E t \in Threads, waited \in BOOLEAN : process_pending_begin(t, waited)
    \/ \E t \in Threads, o \in PlannerOutcomes : process_pending_step(t, o)
    \/ \E t \in Threads, waited \in BOOLEAN : process_pending_end(t, waited)

Step(sequential) ==
    StepWith(sequential, DroneInputs(sequential), RequestInputs(sequential),
             PayloadInputs(sequential))

Next == Step(TRUE)
Spec == Init /\ [][Next]_vars

NextConcurrent == Step(FALSE)
SpecConcurrent == Init /\ [][NextConcurrent]_vars

(***************************************************************************)
(* SpecIntake: the operations one at a time, on requests that carry a      *)
(* payload, for the ICU, served by drones in the Emergency Room whose      *)
(* battery is at the level the trip with the light payload needs, or one   *)
(* unit (1e-8 kWh) below it.                                               *)
(***************************************************************************)
RequiredLevel(from, to, payload) ==
    calculate_drone_energy(find_shortest_path(from, to).dist,
                           OrDefault(PayloadWeight(payload)))
        + MIN_BATTERY_THRESHOLD

LightLevel == RequiredLevel(1, 2, LightPayload)
IntakeDroneInputs == {1} \X {FALSE} \X {LightLevel, LightLevel - 1}
IntakeRequestInputs == {2} \X {CTAS_V} \X {FALSE} \X {None} \X {None}
IntakePayloadInputs ==
    {<< >>, LightPayload, ExactPayload, ReorderedPayload, HeavyPayload, UnlistedPayload}

NextIntake ==
    StepWith(TRUE, IntakeDroneInputs, IntakeRequestInputs, IntakePayloadInputs)
SpecIntake == Init /\ [][NextIntake]_vars

(***************************************************************************)
(* SpecRace: caller and timer threads interleave, and a thread may be      *)
(* switched out inside _assign_drone_to_request.  The drones wait in the   *)
(* Emergency Room with one unit of battery less than the trip to the ICU   *)
(* needs, so the first request sends its drone to charge.  The callers     *)
(* create requests; they complete and cancel none.                         *)
(***************************************************************************)
RaceLevel == RequiredLevel(1, 2, << >>) - 1
RaceDroneInputs == {1} \X {FALSE} \X {RaceLevel}
RaceRequestInputs == {2} \X {CTAS_V} \X {FALSE} \X {None} \X {None}

NextRace ==
    \/ \E d \in RaceDroneInputs : add_drone(d[1], d[2], d[3])
    \/ \E t \in Threads, r \in RaceRequestInputs, waited \in BOOLEAN :
          create_request(FALSE, t, r[1],
              [priority |-> r[2], emergency |-> r[3], clinical_severity_score |-> r[4],
               expected_life_years_gained |-> r[5]],
              << >>, waited)
    \/ \E t \in Threads : \E tm \in BagToSet(timers) : timer_fires(FALSE, t, tm)
    \/ \E t \in Threads : acquire_lock(t)
    \/ \E t \in Threads : auto_complete_request(t)
    \/ \E t \in Threads : arrive_at_charging_station(t)
    \/ \E t \in Threads : complete_charging(t)
    \/ \E t \in Threads, waited \in BOOLEAN : process_pending_begin(t, waited)
    \/ \E t \in Threads, o \in PlannerOutcomes : process_pending_step(t, o)
    \/ \E t \in Threads, o \in PlannerOutcomes : assign_select(t, o)
    \/ \E t \in Threads, o \in PlannerOutcomes : assign_commit(t, o)
    \/ \E t \in Threads, waited \in BOOLEAN : process_pending_end(t, waited)
SpecRace == Init /\ [][NextRace]_vars

(***************************************************************************)
(* src/service.py: get_all_pending_requests, lines 995-998: the pending    *)
(* requests sorted by the key (-priority.value, timestamp), as the         *)
(* sequence of their ids.                                                  *)
(***************************************************************************)
PendingKeyLess(reqs, a, b) ==
    reqs[a].priority > reqs[b].priority
        \/ (reqs[a].priority = reqs[b].priority /\ a < b)

RECURSIVE InsertPending(_, _, _)
InsertPending(reqs, sorted, r) ==
    IF sorted = << >> THEN <<r>>
    ELSE IF PendingKeyLess(reqs, r, Head(sorted)) THEN <<r>> \o sorted
    ELSE <<Head(sorted)>> \o InsertPending(reqs, Tail(sorted), r)

RECURSIVE PendingFrom(_, _)
PendingFrom(reqs, i) ==
    IF i = 0 THEN << >>
    ELSE IF reqs[i].status = "pending"
         THEN InsertPending(reqs, PendingFrom(reqs, i - 1), i)
         ELSE PendingFrom(reqs, i - 1)

get_all_pending_requests(reqs) == PendingFrom(reqs, Len(reqs))

(***************************************************************************)
(* SpecTriage: the operations one at a time, on requests of one CTAS class *)
(* made with and without the emergency flag, a clinical severity score and *)
(* expected life years, served by one normal drone at 80% of its capacity. *)
(***************************************************************************)
TriageDroneInputs == {1} \X {FALSE} \X {ChargeTarget}
TriageRequestInputs == {2, 30} \X {CTAS_V} \X BOOLEAN \X {None, 10000} \X {None, 50}

NextTriage ==
    StepWith(TRUE, TriageDroneInputs, TriageRequestInputs, PayloadInputs(TRUE))
SpecTriage == Init /\ [][NextTriage]_vars

(***************************************************************************)
(* SpecOrder: the queue of a dispatcher without drones after three CTAS V  *)
(* requests for the ICU were made, each call with a clinical severity      *)
(* score of 0.0, 0.0003 or 0.0006, two of them possibly by one call whose  *)
(* payload was split.  The last call is about to run its pass; the passes  *)
(* leave the requests pending.                                             *)
(***************************************************************************)
OrderSeverityInputs == {0, 3, 6}

OrderCall(severity) ==
    [priority |-> CTAS_V, emergency |-> FALSE, clinical_severity_score |-> severity,
     expected_life_years_gained |-> None]

OrderRequests ==
    {NewRequests(1, 2, OrderCall(x), << << >> >>)
         \o NewRequests(2, 2, OrderCall(y), << << >> >>)
         \o NewRequests(3, 2, OrderCall(z), << << >> >>) :
             x \in OrderSeverityInputs, y \in OrderSeverityInputs, z \in OrderSeverityInputs}
    \cup {NewRequests(1, 2, OrderCall(x), RequestPayloads(HeavyPayload))
              \o NewRequests(3, 2, OrderCall(z), << << >> >>) :
                  x \in OrderSeverityInputs, z \in OrderSeverityInputs}
    \cup {NewRequests(1, 2, OrderCall(x), << << >> >>)
              \o NewRequests(2, 2, OrderCall(y), RequestPayloads(HeavyPayload)) :
                  x \in OrderSeverityInputs, y \in OrderSeverityInputs}

InitOrder ==
    /\ requests \in OrderRequests
    /\ drones = << >>
    /\ priority_queue \in {PushAll(requests, << >>, <<1, 2, 3>>, waited) :
                               waited \in BOOLEAN}
    /\ active_flights = << >>
    /\ timers = EmptyBag
    /\ lock = None
    /\ total_energy_saved_kwh = 0
    /\ next_request_id = 4
    /\ next_drone_id = 1
    /\ now = 1
    /\ pc = [t \in Threads |-> IF t = 1 THEN "pass_begin" ELSE "idle"]
    /\ frame = [t \in Threads |->
                   IF t = 1
                   THEN [IdleFrame EXCEPT
                            !.returns = IF requests[3].parent_request_id # None
                                        THEN requests[3].parent_request_id ELSE 3]
                   ELSE IdleFrame]
    /\ direct_call = NoCall

NextOrder ==
    \/ \E t \in Threads, waited \in BOOLEAN : process_pending_begin(t, waited)
    \/ \E t \in Threads, o \in PlannerOutcomes : process_pending_step(t, o)
    \/ \E t \in Threads, waited \in BOOLEAN : process_pending_end(t, waited)
SpecOrder == InitOrder /\ [][NextOrder]_vars

(***************************************************************************)
(* SpecReroute: the operations one at a time, on CTAS V requests for the   *)
(* ICU, the charging station between the Emergency Room and the ICU, and   *)
(* the far ward, served by normal drones in the Emergency Room at 80% of   *)
(* their capacity.                                                         *)
(***************************************************************************)
RerouteDroneInputs == {1} \X {FALSE} \X {ChargeTarget}
RerouteRequestInputs == {2, 9, 30} \X {CTAS_V} \X {FALSE} \X {None} \X {None}

NextReroute ==
    StepWith(TRUE, RerouteDroneInputs, RerouteRequestInputs, PayloadInputs(TRUE))
SpecReroute == Init /\ [][NextReroute]_vars

(***************************************************************************)
(* SpecCatalog: direct calls of ItemCatalog.validate_payload and           *)
(* ItemCatalog.split_payload (src/items.py) on the dicts of up to          *)
(* MaxEntries entries with quantities up to MaxQuantity.                   *)
(***************************************************************************)
ItemIdInputs == DOMAIN ITEMS \cup {UnlistedItem}

ItemQuantityInputs ==
    UNION {{iq \in [1 .. n -> ItemIdInputs \X (1 .. MaxQuantity)] :
               \A i, k \in 1 .. n : i # k => iq[i][1] # iq[k][1]} : n \in 0 .. MaxEntries}

InitCatalog ==
    /\ requests = << >>
    /\ drones = << >>
    /\ priority_queue = << >>
    /\ active_flights = << >>
    /\ timers = EmptyBag
    /\ lock = None
    /\ total_energy_saved_kwh = 0
    /\ next_request_id = 1
    /\ next_drone_id = 1
    /\ now = 1
    /\ pc = [t \in Threads |-> "idle"]
    /\ frame = [t \in Threads |-> IdleFrame]
    /\ direct_call \in {[NoCall EXCEPT !.pc = "called", !.item_quantities = iq,
                                         !.patient_critical = c] :
                             iq \in ItemQuantityInputs, c \in BOOLEAN}

dispatcher == <<requests, drones, priority_queue, active_flights, timers, lock,
                total_energy_saved_kwh, next_request_id, next_drone_id, now,
                pc, frame>>

validate_payload_call ==
    /\ direct_call.pc = "called"
    /\ direct_call' =
           [direct_call EXCEPT
               !.pc = "validated",
               !.is_valid = validate_payload(direct_call.item_quantities)]
    /\ UNCHANGED dispatcher

split_payload_call ==
    /\ direct_call.pc = "validated"
    /\ direct_call' =
           [direct_call EXCEPT
               !.pc = "split",
               !.payloads = split_payload(direct_call.item_quantities,
                                          direct_call.patient_critical)]
    /\ UNCHANGED dispatcher

NextCatalog == validate_payload_call \/ split_payload_call
SpecCatalog == InitCatalog /\ [][NextCatalog]_vars

(***************************************************************************)
(* SpecFleet: one pass over three requests with two normal drones free.    *)
(* Two CTAS V requests were created while the dispatcher had no drone and  *)
(* stayed pending; two drones were then added, at the Emergency Room or    *)
(* the charging station (add_drone runs no pass); a third call has stored  *)
(* and pushed its request and is about to run its pass, which takes the    *)
(* three requests one after the other.                                     *)
(***************************************************************************)
FleetCall ==
    [priority |-> CTAS_V, emergency |-> FALSE, clinical_severity_score |-> None,
     expected_life_years_gained |-> None]

FleetDroneInputs == {1, 9} \X {FALSE} \X {BATTERY_CAPACITY, ChargeTarget}
FleetLocationInputs == {1, 2, 9, 30}

FleetRequests ==
    {NewRequests(1, loc1, FleetCall, << << >> >>)
         \o NewRequests(2, loc2, FleetCall, << << >> >>)
         \o NewRequests(3, loc3, FleetCall, << << >> >>) :
             loc1 \in FleetLocationInputs, loc2 \in FleetLocationInputs,
             loc3 \in FleetLocationInputs}

FleetDrones ==
    {<<NewDrone(first[1], first[2], first[3]), NewDrone(second[1], second[2], second[3])>> :
         first \in FleetDroneInputs, second \in FleetDroneInputs}

InitFleet ==
    /\ requests \in FleetRequests
    /\ drones \in FleetDrones
    /\ priority_queue \in {PushAll(requests, << >>, <<1, 2, 3>>, waited) :
                               waited \in BOOLEAN}
    /\ active_flights = << >>
    /\ timers = EmptyBag
    /\ lock = None
    /\ total_energy_saved_kwh = 0
    /\ next_request_id = 4
    /\ next_drone_id = 3
    /\ now = 1
    /\ pc = [t \in Threads |-> IF t = 1 THEN "pass_begin" ELSE "idle"]
    /\ frame = [t \in Threads |->
                   IF t = 1 THEN [IdleFrame EXCEPT !.returns = 3] ELSE IdleFrame]
    /\ direct_call = NoCall

NextFleet ==
    \/ \E t \in Threads, waited \in BOOLEAN : process_pending_begin(t, waited)
    \/ \E t \in Threads, o \in PlannerOutcomes : process_pending_step(t, o)
    \/ \E t \in Threads, waited \in BOOLEAN : process_pending_end(t, waited)
    \/ \E t \in Threads, tm \in BagToSet(timers) : timer_fires(TRUE, t, tm)
    \/ \E t \in Threads : acquire_lock(t)
    \/ \E t \in Threads : auto_complete_request(t)
SpecFleet == InitFleet /\ [][NextFleet]_vars

(***************************************************************************)
(* SpecIds: callers on several threads create requests without payload,    *)
(* for the ICU and the far ward, on a dispatcher that has no drone yet:    *)
(* the passes leave every request pending.                                 *)
(***************************************************************************)
IdsRequestInputs == {2, 30} \X {CTAS_V} \X {FALSE} \X {None} \X {None}

NextIds ==
    \/ \E t \in Threads, x \in IdsRequestInputs :
           create_request_begin(t, x[1],
               [priority |-> x[2], emergency |-> x[3], clinical_severity_score |-> x[4],
                expected_life_years_gained |-> x[5]])
    \/ \E t \in Threads, waited \in BOOLEAN : create_request_store(t, waited)
    \/ \E t \in Threads : create_request_increment(t)
    \/ \E t \in Threads, waited \in BOOLEAN : process_pending_begin(t, waited)
    \/ \E t \in Threads, o \in PlannerOutcomes : process_pending_step(t, o)
    \/ \E t \in Threads, waited \in BOOLEAN : process_pending_end(t, waited)
SpecIds == Init /\ [][NextIds]_vars

(***************************************************************************)
(* src/graph.py: find_second_shortest_path, on a graph given by its        *)
(* adjacency lists adj (the method edits self.adjacency_list while it      *)
(* runs and restores it).  RelaxIn, DijkstraLoopIn and ShortestPathIn are  *)
(* weighted_dijkstra and find_shortest_path on adj.                        *)
(***************************************************************************)
RECURSIVE RelaxIn(_, _, _, _, _)
RelaxIn(adj, st, cur, curDist, i) ==
    IF i > Len(adj[cur]) THEN st
    ELSE IF adj[cur][i][1] \in st.visited \/ ~(curDist + adj[cur][i][2] < st.dist[adj[cur][i][1]])
    THEN RelaxIn(adj, st, cur, curDist, i + 1)
    ELSE RelaxIn(adj,
                 [st EXCEPT !.dist[adj[cur][i][1]] = curDist + adj[cur][i][2],
                            !.prev[adj[cur][i][1]] = cur,
                            !.pq = @ \cup {<<curDist + adj[cur][i][2], adj[cur][i][1]>>}],
                 cur, curDist, i + 1)

RECURSIVE DijkstraLoopIn(_, _, _)
DijkstraLoopIn(adj, st, target) ==
    IF st.pq = {} THEN st
    ELSE IF PopMin(st.pq)[2] \in st.visited
    THEN DijkstraLoopIn(adj, [st EXCEPT !.pq = @ \ {PopMin(st.pq)}], target)
    ELSE IF target # None /\ PopMin(st.pq)[2] = target
    THEN [st EXCEPT !.pq = @ \ {PopMin(st.pq)}, !.visited = @ \cup {target}]
    ELSE CHOOSE done \in
             {DijkstraLoopIn(adj, relaxed, target) :
                  relaxed \in {RelaxIn(adj,
                                  [st EXCEPT !.pq = @ \ {PopMin(st.pq)},
                                             !.visited = @ \cup {PopMin(st.pq)[2]}],
                                  PopMin(st.pq)[2], PopMin(st.pq)[1], 1)}} : TRUE

ShortestPathIn(adj, s, g) ==
    IF s \notin Nodes \/ g \notin Nodes THEN [path |-> << >>, dist |-> Inf]
    ELSE CHOOSE found \in
             {IF r.dist[g] = Inf THEN [path |-> << >>, dist |-> Inf]
              ELSE [path |-> PathBack(r.prev, g), dist |-> r.dist[g]] :
                  r \in {DijkstraLoopIn(adj,
                             [dist    |-> [n \in Nodes |-> IF n = s THEN 0 ELSE Inf],
                              prev    |-> [n \in Nodes |-> None],
                              pq      |-> {<<0, s>>},
                              visited |-> {}], g)}} : TRUE

\* lines 153-163: the pathway between from_node and to_node taken out
RemoveEdge(adj, from_node, to_node) ==
    [n \in DOMAIN adj |->
        IF n = from_node THEN SelectSeq(adj[n], LAMBDA e : e[1] # to_node)
        ELSE IF n = to_node THEN SelectSeq(adj[n], LAMBDA e : e[1] # from_node)
        ELSE adj[n]]

\* lines 148-175: each pathway of the shortest path is taken out in turn
RECURSIVE SecondScan(_, _, _, _, _, _)
SecondScan(adj, start_id, target_id, shortest_path, i, best) ==
    IF i >= Len(shortest_path) THEN best
    ELSE CHOOSE scanned \in
             {SecondScan(adj, start_id, target_id, shortest_path, i + 1,
                         IF alt.path # << >> /\ alt.dist < best.dist
                                /\ alt.path # shortest_path
                         THEN alt ELSE best) :
                  alt \in {ShortestPathIn(
                               RemoveEdge(adj, shortest_path[i], shortest_path[i + 1]),
                               start_id, target_id)}} : TRUE

SecondFrom(adj, start_id, target_id, shortest) ==
    IF shortest.path = << >> \/ shortest.dist = Inf THEN [path |-> << >>, dist |-> Inf]
    ELSE IF Len(shortest.path) < 3 THEN [path |-> << >>, dist |-> Inf]
    ELSE SecondScan(adj, start_id, target_id, shortest.path, 1,
                    [path |-> << >>, dist |-> Inf])

find_second_shortest_path(adj, start_id, target_id) ==
    IF start_id \notin Nodes \/ target_id \notin Nodes
    THEN [path |-> << >>, dist |-> Inf]
    ELSE CHOOSE second \in
             {SecondFrom(adj, start_id, target_id, shortest) :
                  shortest \in {ShortestPathIn(adj, start_id, target_id)}} : TRUE

(***************************************************************************)
(* SpecPaths: direct calls of HospitalGraph.find_second_shortest_path      *)
(* between two locations (or an id that is no location), on the floor plan *)
(* with any of its pathways closed.                                        *)
(***************************************************************************)
Pathways ==
    {e \in Nodes \X Nodes :
        /\ e[1] < e[2]
        /\ \E i \in 1 .. Len(adjacency_list[e[1]]) : adjacency_list[e[1]][i][1] = e[2]}

ClosedGraph(closed) ==
    [n \in DOMAIN adjacency_list |->
        SelectSeq(adjacency_list[n],
                  LAMBDA e : <<n, e[1]>> \notin closed /\ <<e[1], n>> \notin closed)]

GraphInputs == {ClosedGraph(closed) : closed \in SUBSET Pathways}

InitPaths ==
    /\ requests = << >>
    /\ drones = << >>
    /\ priority_queue = << >>
    /\ active_flights = << >>
    /\ timers = EmptyBag
    /\ lock = None
    /\ total_energy_saved_kwh = 0
    /\ next_request_id = 1
    /\ next_drone_id = 1
    /\ now = 1
    /\ pc = [t \in Threads |-> "idle"]
    /\ frame = [t \in Threads |-> IdleFrame]
    /\ direct_call \in {[pc |-> "called", adjacency_list |-> adj, start_id |-> s,
                          target_id |-> g, path |-> << >>, dist |-> Inf] :
                             adj \in GraphInputs, s \in Nodes \cup {UnknownLoc},
                             g \in Nodes \cup {UnknownLoc}}

find_second_shortest_path_call ==
    /\ direct_call.pc = "called"
    /\ \E second \in {find_second_shortest_path(direct_call.adjacency_list,
                                                  direct_call.start_id,
                                                  direct_call.target_id)} :
          direct_call' = [direct_call EXCEPT !.pc = "found",
                                             !.path = second.path,
                                             !.dist = second.dist]
    /\ UNCHANGED dispatcher

NextPaths == find_second_shortest_path_call
SpecPaths == InitPaths /\ [][NextPaths]_vars

(***************************************************************************)
(* SpecAccept: the acceptance test of _evaluate_multi_stop_efficiency      *)
(* (src/service.py, lines 447-468) on its own.  The baseline energy is     *)
(* that of the flight <<1, 2>> carrying 0.5 kg plus a dedicated drone for  *)
(* the new request as line 376 computes it; the combined energy lies       *)
(* around 110% of it, or below it; the battery lies around the combined    *)
(* energy plus the reserve.                                                *)
(***************************************************************************)
AcceptBaseline ==
    AddInf(calculate_route_energy(<<1, 2>>, <<DEFAULT_PAYLOAD, 0>>),
           calculate_drone_energy(0, DEFAULT_PAYLOAD))

AcceptBaselineInputs == {AcceptBaseline, AcceptBaseline + 10, AcceptBaseline + 20}

AcceptCombinedInputs ==
    {AcceptBaseline - 10, AcceptBaseline,
     (11 * AcceptBaseline) \div 10 - 1, (11 * AcceptBaseline) \div 10,
     (11 * AcceptBaseline) \div 10 + 1, (11 * AcceptBaseline) \div 10 + 2,
     (11 * AcceptBaseline) \div 10 + 11, (11 * AcceptBaseline) \div 10 + 22}

AcceptBatteryInputs == {MIN_BATTERY_THRESHOLD - 1, MIN_BATTERY_THRESHOLD,
                        ChargeTarget}

InitAccept ==
    /\ requests = << >>
    /\ drones = << >>
    /\ priority_queue = << >>
    /\ active_flights = << >>
    /\ timers = EmptyBag
    /\ lock = None
    /\ total_energy_saved_kwh = 0
    /\ next_request_id = 1
    /\ next_drone_id = 1
    /\ now = 1
    /\ pc = [t \in Threads |-> "idle"]
    /\ frame = [t \in Threads |-> IdleFrame]
    /\ direct_call \in {[pc |-> "called", baseline_energy |-> b, combined_energy |-> c,
                          battery_level |-> IF above = ChargeTarget THEN ChargeTarget
                                            ELSE c + above,
                          evaluation |-> NoEvaluation] :
                             b \in AcceptBaselineInputs, c \in AcceptCombinedInputs,
                             above \in AcceptBatteryInputs}

\* lines 447-468 on the energies and the battery level of the call
judge_combined_call ==
    /\ direct_call.pc = "called"
    /\ direct_call' =
           [direct_call EXCEPT
               !.pc = "judged",
               !.evaluation = JudgeCombined(direct_call.battery_level,
                                            direct_call.baseline_energy,
                                            direct_call.combined_energy,
                                            <<1, 2, 9>>)]
    /\ UNCHANGED dispatcher

NextAccept == judge_combined_call
SpecAccept == InitAccept /\ [][NextAccept]_vars

(***************************************************************************)
(* Properties.                                                             *)
(***************************************************************************)
\* no call or callback is in progress (a callback waiting for a held lock
\* has not started its work)
Quiescent == \A t \in Threads : pc[t] = "idle" \/ Blocked(t)

\* C1: complete_request rejects a request that is not in status "assigned":
\* no step marks such a request completed or changes its completion time,
\* so a second completion of a request has no effect.
C1_CompleteRejectsNonAssigned ==
    [][\A r \in DOMAIN requests :
          requests[r].status # "assigned" =>
              /\ requests'[r].completed_at = requests[r].completed_at
              /\ (requests'[r].status = "completed" =>
                     requests[r].status = "completed")]_vars

\* C2: every drone sent to charging is on its way to becoming available:
\* while it is returning or charging, the timer that will move it on is
\* armed or that timer's callback is running.
C2_ChargingDroneHasCompletionPending ==
    \A d \in DOMAIN drones :
        drones[d].status \in {"returning_to_charging", "charging"} =>
            \/ \E tm \in BagToSet(timers) :
                   tm.id = d /\ tm.kind \in {"arrive", "complete_charging"}
            \/ \E t \in Threads :
                   /\ pc[t] \in {"arr_acquire", "arr_body", "cc_acquire", "cc_body"}
                   /\ frame[t].id = d

\* C3: timer callbacks never block each other for good and the lock is
\* always released: the thread holding the lock is never itself waiting to
\* acquire it.
C3_LockHolderNeverWaitsForLock ==
    \A t \in Threads : lock = t => pc[t] \notin AcquirePoints

\* C4: the operations exclude each other: a thread inside a processing pass
\* holds the lock, and no two passes are in progress at once.
C4_PassesExcludeEachOther ==
    /\ \A t \in Threads : pc[t] = "pass_loop" => lock = t
    /\ Cardinality({t \in Threads : pc[t] = "pass_loop"}) <= 1

C8_FlightRouteHasTwoNodes ==
    \A i \in 1 .. Len(active_flights) : Len(active_flights[i].route) >= 2

\* C9: when the operations run one at a time, after each of them (also one
\* that ended with an error) every pending request is in the priority queue.
C9_PendingRequestsAreQueued ==
    Quiescent =>
        \A r \in DOMAIN requests :
            requests[r].status = "pending" => InSeq(r, priority_queue)

\* C10: a cancelled request stays as it is: completing it is a no-op, its
\* status stays "cancelled" and its completion time stays unset.
C10_CancelledRequestIsFinal ==
    [][\A r \in DOMAIN requests :
          requests[r].status = "cancelled" =>
              /\ requests'[r].status = "cancelled"
              /\ requests'[r].completed_at = None]_vars

\* C11: create_request with an empty or missing payload map fails and stores
\* nothing: no request in the requests table has an empty payload map.
C11_NoRequestWithEmptyPayload ==
    \A r \in DOMAIN requests : requests[r].payload_items # << >>

\* C12: cancel_request changes a request only if its status is pending: no
\* step turns a request that is assigned, completed or unknown into a
\* cancelled one.  A request cancelled while pending is never assigned to a
\* drone, never intercepted into a flight and never given a completion timer
\* by a later step.
C12_OnlyPendingCancelledAndThenSkipped ==
    [][\A r \in DOMAIN requests :
          /\ (requests'[r].status = "cancelled" =>
                 requests[r].status \in {"pending", "cancelled"})
          /\ (requests[r].status = "cancelled" =>
                 /\ requests'[r].status # "assigned"
                 /\ requests'[r].assigned_drone_id = None
                 /\ \A i \in 1 .. Len(active_flights') :
                        ~InSeq(r, active_flights'[i].request_ids)
                 /\ \A tm \in BagToSet(timers') :
                        ~(tm.kind = "auto_complete" /\ tm.id = r))]_vars

\* a pass is in its loop and has dropped the cancelled request from the
\* queue although a charged drone stands at the request's own location
C12_PassSkippedCancelledRequest ==
    \E r \in DOMAIN requests, d \in DOMAIN drones, t \in Threads :
        /\ requests[r].status = "cancelled"
        /\ requests[r].assigned_drone_id = None
        /\ pc[t] = "pass_loop"
        /\ ~InSeq(r, priority_queue)
        /\ ~InSeq(r, frame[t].temp_queue)
        /\ drones[d].status = "available"
        /\ drones[d].battery_level_kwh = BATTERY_CAPACITY
        /\ drones[d].current_location_id = requests[r].requester_location_id

\* C13: when cancel_request runs concurrently with a processing pass, a
\* request the pass has assigned cannot end up cancelled: a request that has
\* a drone is assigned or completed.
C13_RequestWithDroneNotCancelled ==
    \A r \in DOMAIN requests :
        requests[r].assigned_drone_id # None =>
            requests[r].status \in {"assigned", "completed"}

\* C14: a fresh assignment arms exactly one auto-completion timer for the
\* request; when the timer's callback runs while the request is still
\* assigned, the request is completed and its drone is released; when the
\* request is no longer assigned the callback changes nothing.
C14_TimerCompletesAndReleasesDrone ==
    [][/\ \A r \in DOMAIN requests :
             (requests[r].status = "pending" /\ requests'[r].status = "assigned"
                  /\ \E i \in 1 .. Len(active_flights') :
                         active_flights'[i].request_ids = <<r>>) =>
                 CopiesIn(Timer("auto_complete", r, 0, None), timers') = 1
       /\ \A t \in Threads :
             (pc[t] = "ac_body" /\ pc'[t] # "ac_body"
                  /\ frame[t].id \in DOMAIN requests) =>
                 IF requests[frame[t].id].status = "assigned"
                 THEN /\ requests'[frame[t].id].status = "completed"
                      /\ \A d \in DOMAIN drones :
                             drones[d].assigned_request_id = frame[t].id =>
                                 /\ drones'[d].status # "assigned"
                                 /\ drones'[d].assigned_request_id = None
                 ELSE UNCHANGED <<requests, drones, active_flights, timers>>]_vars

\* C15: after an interception both requests of the combined flight are
\* delivered through a completion event scheduled for each: every request of
\* a combined flight that is still assigned has its auto-completion timer
\* armed or that timer's callback in progress.
C15_CombinedFlightRequestsHaveCompletionEvent ==
    \A i \in 1 .. Len(active_flights) :
        Len(active_flights[i].request_ids) >= 2 =>
            \A k \in 1 .. Len(active_flights[i].request_ids) :
                requests[active_flights[i].request_ids[k]].status = "assigned" =>
                    \/ BagIn(Timer("auto_complete", active_flights[i].request_ids[k],
                                   0, None), timers)
                    \/ \E t \in Threads :
                           /\ pc[t] \in {"ac_acquire", "ac_body"}
                           /\ frame[t].id = active_flights[i].request_ids[k]

\* C16: triage ordering: whenever a processing pass pops a pending request,
\* no pending request left in the queue has a higher CTAS class, whatever
\* the ages of the requests.
C16_HigherClassPoppedFirst ==
    [][\A t \in Threads :
          (pc[t] = "pass_loop" /\ priority_queue # << >>
               /\ priority_queue' = Tail(priority_queue)
               /\ requests[Head(priority_queue)].status = "pending") =>
              \A k \in 2 .. Len(priority_queue) :
                  requests[priority_queue[k]].status = "pending" =>
                      requests[priority_queue[k]].priority
                          <= requests[Head(priority_queue)].priority]_vars

\* the pass has popped the younger request of the higher class and set it
\* aside while the older request of the lower class is still in the queue
C16_YoungerHigherClassPoppedFirst ==
    \E t \in Threads, a, b \in DOMAIN requests :
        /\ pc[t] = "pass_loop"
        /\ a < b
        /\ requests[a].status = "pending" /\ requests[b].status = "pending"
        /\ requests[a].priority < requests[b].priority
        /\ priority_queue = <<a>>
        /\ frame[t].temp_queue = <<b>>

\* C17: battery boundary in a fresh assignment.  When a pass pops a pending
\* request that is not intercepted and d is the drone selected for it: with
\* the battery of d at or above the energy of the trip for the request's
\* payload plus the reserve the assignment is committed; below it d is sent
\* to charging and the request stays pending, with no flight entry and no
\* ETA timer, and is set aside to be put back; the end of the pass puts the
\* requests set aside back on the queue.
C17_BatteryBoundary ==
    [][\A t \in Threads :
          /\ (pc[t] = "pass_loop" /\ priority_queue # << >>
                  /\ priority_queue' = Tail(priority_queue)
                  /\ requests[Head(priority_queue)].status = "pending"
                  /\ \E d \in DOMAIN drones : drones[d].status = "available"
                  /\ \A i \in 1 .. Len(active_flights') :
                         InSeq(Head(priority_queue), active_flights'[i].request_ids)
                             => Len(active_flights'[i].request_ids) = 1) =>
                 LET r == Head(priority_queue)
                     d == CHOOSE e \in DOMAIN drones :
                              /\ drones[e].status = "available"
                              /\ \A f \in DOMAIN drones :
                                     drones[f].status = "available" => e <= f
                     required == calculate_drone_energy(
                                     find_shortest_path(drones[d].current_location_id,
                                         requests[r].requester_location_id).dist,
                                     OrDefault(requests[r].payload_weight_kg))
                 IN IF drones[d].battery_level_kwh >= required + MIN_BATTERY_THRESHOLD
                    THEN /\ requests'[r].status = "assigned"
                         /\ requests'[r].assigned_drone_id = d
                         /\ drones'[d].status = "assigned"
                         /\ drones'[d].assigned_request_id = r
                         /\ \E i \in 1 .. Len(active_flights') :
                                /\ active_flights'[i].drone = d
                                /\ active_flights'[i].request_ids = <<r>>
                         /\ BagIn(Timer("auto_complete", r, 0, None), timers')
                    ELSE /\ drones'[d].status \in {"returning_to_charging", "charging"}
                         /\ requests'[r] = requests[r]
                         /\ \A i \in 1 .. Len(active_flights') :
                                ~InSeq(r, active_flights'[i].request_ids)
                         /\ ~BagIn(Timer("auto_complete", r, 0, None), timers')
                         /\ frame'[t].temp_queue = Append(frame[t].temp_queue, r)
          /\ (pc[t] = "pass_loop" /\ priority_queue = << >> /\ pc'[t] = "idle") =>
                 \A k \in 1 .. Len(frame[t].temp_queue) :
                     InSeq(frame[t].temp_queue[k], priority_queue')]_vars

\* one request was committed to a drone whose battery is exactly the energy
\* of its trip plus the reserve, while the drone one unit below that level
\* was sent to charging
C17_CommittedAtExactLevelOtherSentToCharging ==
    \E r \in DOMAIN requests, d, e \in DOMAIN drones :
        /\ requests[r].status = "assigned" /\ requests[r].assigned_drone_id = d
        /\ drones[d].status = "assigned"
        /\ drones[d].battery_level_kwh =
               calculate_drone_energy(
                   find_shortest_path(drones[d].current_location_id,
                                      requests[r].requester_location_id).dist,
                   OrDefault(requests[r].payload_weight_kg)) + MIN_BATTERY_THRESHOLD
        /\ drones[e].battery_level_kwh = drones[d].battery_level_kwh - 1
        /\ drones[e].status \in {"returning_to_charging", "charging"}

\* C18: resource exhaustion is recovered: a pending request whose location
\* is reachable is assigned in the end when a drone of its type exists that
\* can make the trip on a charged battery.  So the service does not come to
\* rest (every call and callback finished, no timer left to fire) with such
\* a request still pending.
C18_NoPendingRequestAtRest ==
    ((\A t \in Threads : pc[t] = "idle") /\ timers = EmptyBag) =>
        \A r \in DOMAIN requests :
            (requests[r].status = "pending"
                 /\ requests[r].requester_location_id \in Nodes) =>
                ~\E d \in DOMAIN drones :
                     /\ drones[d].emergency_drone = RequestIsEmergency(requests[r])
                     /\ AddInf(calculate_drone_energy(
                                   find_shortest_path(drones[d].current_location_id,
                                       requests[r].requester_location_id).dist,
                                   OrDefault(requests[r].payload_weight_kg)),
                               MIN_BATTERY_THRESHOLD) <= ChargeTarget

\* the exact weight, in units of 10 g, of the payload of the call that made
\* request r: the sum over the requests of that call, from request i on
RECURSIVE CallWeightFrom(_, _, _)
CallWeightFrom(reqs, r, i) ==
    IF i > Len(reqs) THEN 0
    ELSE (IF SameCall(reqs, r, i) THEN reqs[i].payload_weight_kg ELSE 0)
             + CallWeightFrom(reqs, r, i + 1)

\* C19: create_request creates exactly one request, not partial and without
\* parent, when the payload weighs at most 2.0 kg, and at least two requests
\* when it weighs more: the payload of a call that made a partial or child
\* request weighs more than 2.0 kg, and a request that is neither weighs at
\* most 2.0 kg.
C19_SplitExactlyWhenAboveCapacity ==
    \A r \in DOMAIN requests :
        IF requests[r].is_partial_delivery \/ requests[r].parent_request_id # None
        THEN /\ CallWeightFrom(requests, r, 1) > 200
             /\ \E q \in DOMAIN requests : q # r /\ SameCall(requests, r, q)
        ELSE requests[r].payload_weight_kg <= 200

\* the units of item_id in the payloads of a split, from payload i on
RECURSIVE UnitsFrom(_, _, _)
UnitsFrom(payloads, item_id, i) ==
    IF i > Len(payloads) THEN 0
    ELSE DictGet(payloads[i], item_id) + UnitsFrom(payloads, item_id, i + 1)

\* C20: for every payload map that validate_payload accepts and whose total
\* weight exceeds 2.0 kg, split_payload returns payloads that each weigh at
\* most 2.0 kg and that together hold, for every item id, exactly the units
\* of the input map, for either value of patient_critical.
C20_SplitKeepsUnitsWithinCapacity ==
    (direct_call.pc = "split" /\ direct_call.is_valid
         /\ FloatLess(MAX_PAYLOAD_CAPACITY_KG,
                      calculate_total_weight(direct_call.item_quantities))) =>
        /\ \A i \in 1 .. Len(direct_call.payloads) :
               calculate_total_weight(direct_call.payloads[i])[1] <= 200
        /\ \A item_id \in ItemIdInputs :
               UnitsFrom(direct_call.payloads, item_id, 1)
                   = DictGet(direct_call.item_quantities, item_id)

\* C21: split bookkeeping.  The parent of a request is an existing request;
\* the requests one create_request call made carry the delivery sequence
\* 1, 2, ... in id order and all carry the number of requests of the call as
\* total_deliveries; the id the call returns is that of its request with
\* delivery sequence 1.
C21_SplitBookkeeping ==
    /\ \A r \in DOMAIN requests :
           /\ requests[r].parent_request_id # None =>
                  requests[r].parent_request_id \in DOMAIN requests
           /\ requests[r].total_deliveries =
                  Cardinality({q \in DOMAIN requests : SameCall(requests, r, q)})
           /\ requests[r].delivery_sequence =
                  Cardinality({q \in DOMAIN requests :
                                  SameCall(requests, r, q) /\ q <= r})
    /\ \A t \in Threads :
           frame[t].returns # None =>
               /\ frame[t].returns \in DOMAIN requests
               /\ requests[frame[t].returns].delivery_sequence = 1
               /\ requests[frame[t].returns].parent_request_id = None

\* a split call made two requests and its pass is running: the second is
\* the child of the first, which the call is going to return
C21_SplitCallMadeTwoRequests ==
    \E t \in Threads, r \in DOMAIN requests :
        /\ frame[t].returns # None
        /\ requests[r].parent_request_id = frame[t].returns
        /\ requests[r].delivery_sequence = 2
        /\ requests[r].total_deliveries = 2
        /\ requests[frame[t].returns].is_partial_delivery

\* C22: an unknown location id is rejected at the boundary: create_request
\* with a requester location that is not a node of the graph, and add_drone
\* with such a location, record nothing, so no request and no drone of the
\* dispatcher is at a location outside the graph.
C22_UnknownLocationNotRecorded ==
    /\ \A r \in DOMAIN requests : requests[r].requester_location_id \in Nodes
    /\ \A d \in DOMAIN drones : drones[d].current_location_id \in Nodes

\* C23: when no drone is in flight, the route planned for a fresh assignment
\* is the graph's shortest path from the drone's location to the request's
\* location, for emergency and non-emergency requests alike.
C23_LoneAssignmentFollowsShortestPath ==
    [][(active_flights = << >> /\ Len(active_flights') = 1
            /\ ~active_flights'[1].is_return_trip) =>
          active_flights'[1].route =
              find_shortest_path(
                  drones[active_flights'[1].drone].current_location_id,
                  requests[active_flights'[1].request_ids[1]].requester_location_id).path]_vars

\* C24: assignment is deterministic under fixed inputs: from one dispatcher
\* state, with the same pending request at the head of the queue, every run
\* of the fresh assignment gives the same result (drone, route, timer and
\* the decision to commit or to send the drone to charging), whatever the
\* planner's random samples are.
C24_AssignmentSameForEveryPlannerRun ==
    \A t \in Threads :
        (pc[t] = "pass_loop" /\ priority_queue # << >>
             /\ requests[Head(priority_queue)].status = "pending") =>
            \A o1, o2 \in PlannerOutcomes :
                assign_drone_to_request(
                    [Service EXCEPT !.priority_queue = Tail(priority_queue)],
                    Head(priority_queue), o1)
                  = assign_drone_to_request(
                        [Service EXCEPT !.priority_queue = Tail(priority_queue)],
                        Head(priority_queue), o2)

\* C25: get_all_pending_requests returns the requests whose status is
\* pending, each once, in the order in which the priority queue pops them
\* (CTAS class, then vital priority score, then the split and timestamp
\* tie-breaks), whatever the waiting times of the requests are.
C25_PendingListInQueueOrder ==
    \E waited \in BOOLEAN :
        get_all_pending_requests(requests) =
            heapify(requests,
                    SelectPending(requests, [r \in 1 .. Len(requests) |-> r]),
                    waited)

\* C26: completion is atomic with respect to the processing passes: no pass
\* (and so no interception decision) runs while a request is marked
\* completed and its drone still has the status assigned and its delivery
\* flight is still in active_flights.
C26_NoPassWhileCompletionHalfDone ==
    \A t \in Threads :
        pc[t] \in {"pass_begin", "pass_loop"} =>
            \A r \in DOMAIN requests :
                ~ /\ requests[r].status = "completed"
                  /\ requests[r].assigned_drone_id # None
                  /\ drones[requests[r].assigned_drone_id].status = "assigned"
                  /\ HasFlight(active_flights, requests[r].assigned_drone_id)
                  /\ ~GetFlight(active_flights,
                                requests[r].assigned_drone_id).is_return_trip

\* C27: the drone type matches the request type for every assignment, fresh
\* or by interception: a request that has a drone is an emergency request
\* (emergency flag or CTAS I/II) exactly when the drone is an emergency drone.
C27_DroneTypeMatchesRequestType ==
    \A r \in DOMAIN requests :
        requests[r].assigned_drone_id # None =>
            drones[requests[r].assigned_drone_id].emergency_drone
                = RequestIsEmergency(requests[r])

\* C28: under sequential execution a fresh assignment (a pending request
\* becomes assigned on a new flight entry that lists it alone) commits only
\* a drone that at that moment has status available, is not charging and has
\* at least MIN_BATTERY_THRESHOLD of battery; so a drone that is assigned,
\* in transit, returning to charging or charging never receives one.
C28_FreshAssignmentOnlyToEligibleDrone ==
    [][\A d \in DOMAIN drones, r \in DOMAIN requests :
          (/\ requests[r].status = "pending"
           /\ requests'[r].status = "assigned"
           /\ requests'[r].assigned_drone_id = d
           /\ HasFlight(active_flights', d)
           /\ GetFlight(active_flights', d).request_ids = <<r>>
           /\ ~GetFlight(active_flights', d).is_return_trip) =>
              /\ drones[d].status = "available"
              /\ ~drones[d].is_charging
              /\ drones[d].battery_level_kwh >= MIN_BATTERY_THRESHOLD
              /\ drones[d].status \notin {"assigned", "in_transit",
                                          "returning_to_charging", "charging"}]_vars

\* one request is freshly assigned to a drone while a second request stays
\* pending although another drone exists, which is charging or on its way to
\* the station
C28_BusyDronePassedOver ==
    \E r, q \in DOMAIN requests, d, e \in DOMAIN drones :
        /\ requests[r].status = "assigned" /\ requests[r].assigned_drone_id = d
        /\ HasFlight(active_flights, d)
        /\ GetFlight(active_flights, d).request_ids = <<r>>
        /\ requests[q].status = "pending"
        /\ e # d
        /\ drones[e].status \in {"returning_to_charging", "charging"}
        /\ \A t \in Threads : pc[t] = "idle"

\* C29: while a pass started by create_request on a caller thread and a pass
\* started by a timer callback that has released the lock are both in
\* progress, no drone is committed to two requests: two requests assigned to
\* the same drone are both listed by the drone's flight entry (the second
\* one was added to the flight by an interception), so no fresh assignment
\* has overwritten the entry of another one.
C29_NoDroneCommittedTwice ==
    (\E t, u \in Threads :
         /\ pc[t] \in {"pass_begin", "pass_loop", "assign_planning"}
         /\ frame[t].returns # None
         /\ pc[u] \in {"pass_begin", "pass_loop", "assign_planning"}
         /\ frame[u].returns = None /\ frame[u].id \in DOMAIN drones) =>
        \A r, q \in DOMAIN requests, d \in DOMAIN drones :
            (/\ r # q
             /\ requests[r].status = "assigned" /\ requests[r].assigned_drone_id = d
             /\ requests[q].status = "assigned" /\ requests[q].assigned_drone_id = d) =>
                /\ HasFlight(active_flights, d)
                /\ InSeq(r, GetFlight(active_flights, d).request_ids)
                /\ InSeq(q, GetFlight(active_flights, d).request_ids)

\* C30: whenever no public operation or timer callback is in progress, every
\* request with status assigned has an assigned_drone_id whose drone has an
\* active flight entry that is a delivery flight (not a return trip) and
\* lists the request's id in request_ids.
C30_AssignedRequestIsCarried ==
    Quiescent =>
        \A r \in DOMAIN requests :
            requests[r].status = "assigned" =>
                /\ requests[r].assigned_drone_id \in DOMAIN drones
                /\ HasFlight(active_flights, requests[r].assigned_drone_id)
                /\ ~GetFlight(active_flights, requests[r].assigned_drone_id).is_return_trip
                /\ InSeq(r, GetFlight(active_flights,
                                      requests[r].assigned_drone_id).request_ids)

\* C31: within one processing pass a fresh assignment respects the order of
\* the queue among requests of one drone type: when the pass commits a drone
\* to the request it has popped, none of the requests it has popped before
\* and left pending (temp_queue) is of the same type (emergency or not).
C31_NoFreshAssignmentPastPendingRequest ==
    [][\A t \in Threads :
          (/\ pc[t] = "pass_loop" /\ priority_queue # << >>
           /\ priority_queue' = Tail(priority_queue)
           /\ requests[Head(priority_queue)].status = "pending"
           /\ requests'[Head(priority_queue)].status = "assigned"
           /\ HasFlight(active_flights', requests'[Head(priority_queue)].assigned_drone_id)
           /\ GetFlight(active_flights',
                        requests'[Head(priority_queue)].assigned_drone_id).request_ids
                  = <<Head(priority_queue)>>) =>
              \A k \in 1 .. Len(frame[t].temp_queue) :
                  RequestIsEmergency(requests[frame[t].temp_queue[k]])
                      # RequestIsEmergency(requests[Head(priority_queue)])]_vars

\* C32: at any one moment Request.__lt__ is a strict total order on the
\* pending requests: no request is before itself, of two different requests
\* exactly one is before the other, and when a is before b and b before c
\* then a is before c.
C32_RequestOrderIsStrictTotal ==
    \A waited \in BOOLEAN :
        \A a, b, c \in {r \in DOMAIN requests : requests[r].status = "pending"} :
            /\ ~RequestLt(requests, a, a, waited)
            /\ a # b => (RequestLt(requests, a, b, waited)
                             # RequestLt(requests, b, a, waited))
            /\ (RequestLt(requests, a, b, waited) /\ RequestLt(requests, b, c, waited))
                   => RequestLt(requests, a, c, waited)

\* C33: when an interception of request r by drone d is committed, r becomes
\* assigned to d; the flight entry of d keeps its request_ids and gains r
\* once; its payload_weight grows by the payload weight of r (0.5 kg for a
\* request without payload); the route of the flight and the delivery_route
\* of d become the same route, which contains the location of r; no other
\* drone, flight entry or request changes.
C33_InterceptionFrame ==
    [][\A r \in DOMAIN requests, d \in DOMAIN drones :
          (/\ requests[r].status = "pending"
           /\ requests'[r].status = "assigned"
           /\ requests'[r].assigned_drone_id = d
           /\ HasFlight(active_flights, d)
           /\ HasFlight(active_flights', d)
           /\ Len(GetFlight(active_flights', d).request_ids) >= 2) =>
              /\ GetFlight(active_flights', d).request_ids
                     = Append(GetFlight(active_flights, d).request_ids, r)
              /\ ~InSeq(r, GetFlight(active_flights, d).request_ids)
              /\ GetFlight(active_flights', d).payload_weight
                     = GetFlight(active_flights, d).payload_weight
                           + OrDefault(requests[r].payload_weight_kg)
              /\ GetFlight(active_flights', d).route = drones'[d].delivery_route
              /\ InSeq(requests[r].requester_location_id,
                       GetFlight(active_flights', d).route)
              /\ \A e \in DOMAIN drones : e # d => drones'[e] = drones[e]
              /\ \A q \in DOMAIN requests : q # r => requests'[q] = requests[q]
              /\ Len(active_flights') = Len(active_flights)
              /\ \A i \in 1 .. Len(active_flights) :
                     active_flights[i].drone # d => active_flights'[i] = active_flights[i]]_vars

\* C34: the acceptance test of an interception accepts a candidate exactly
\* when the drone's battery level is at least the combined-route energy plus
\* the reserve and the combined energy is at most 110% of the baseline
\* energy, equality included.
C34_AcceptedIffBatteryFitsAndWithinTenPercent ==
    direct_call.pc = "judged" =>
        (direct_call.evaluation.should_accept
            <=> /\ direct_call.battery_level
                       >= direct_call.combined_energy + MIN_BATTERY_THRESHOLD
                /\ 10 * direct_call.combined_energy <= 11 * direct_call.baseline_energy)

\* C35: a drone never carries more than the 2.0 kg capacity: the
\* payload_weight of every active flight and the current_payload_weight_kg
\* of every drone are at most 2.0 kg, also after interceptions.
C35_PayloadWithinCapacity ==
    /\ \A i \in 1 .. Len(active_flights) : active_flights[i].payload_weight <= MAX_PAYLOAD
    /\ \A d \in DOMAIN drones : drones[d].current_payload_weight_kg <= MAX_PAYLOAD

\* C36: when an interception is committed onto the flight of drone d, the
\* new route of the flight still contains the delivery location of every
\* request that the flight already listed.
C36_InterceptionKeepsEarlierDestinations ==
    [][\A r \in DOMAIN requests, d \in DOMAIN drones :
          (/\ requests[r].status = "pending"
           /\ requests'[r].status = "assigned"
           /\ requests'[r].assigned_drone_id = d
           /\ HasFlight(active_flights, d)
           /\ HasFlight(active_flights', d)
           /\ InSeq(r, GetFlight(active_flights', d).request_ids)
           /\ GetFlight(active_flights, d).request_ids # << >>) =>
              \A i \in 1 .. Len(GetFlight(active_flights, d).request_ids) :
                  InSeq(requests[GetFlight(active_flights, d).request_ids[i]]
                            .requester_location_id,
                        GetFlight(active_flights', d).route)]_vars

\* C37: when an interception is committed onto the flight of drone d, the
\* route installed on d starts at the first node of d's own previous route,
\* whatever other flights are in the air.
C37_InterceptedRouteStartsAtOwnStart ==
    [][\A r \in DOMAIN requests, d \in DOMAIN drones :
          (/\ requests[r].status = "pending"
           /\ requests'[r].status = "assigned"
           /\ requests'[r].assigned_drone_id = d
           /\ HasFlight(active_flights, d)
           /\ HasFlight(active_flights', d)
           /\ InSeq(r, GetFlight(active_flights', d).request_ids)
           /\ GetFlight(active_flights, d).request_ids # << >>) =>
              /\ GetFlight(active_flights', d).route # << >>
              /\ GetFlight(active_flights', d).route[1]
                     = GetFlight(active_flights, d).route[1]]_vars

\* C38: a fresh assignment of request r takes an eligible drone of the
\* request's type at a location no other such drone is nearer to the
\* request than (graph distance), and of the drones at that location the one
\* with the lowest id; a request is passed over with every drone left as it
\* was only when no eligible drone of its type is at a location from which
\* the request's location can be reached.
C38_NearestLocationLowestId ==
    [][/\ \A r \in DOMAIN requests, d \in DOMAIN drones :
             (/\ requests[r].status = "pending"
              /\ requests'[r].status = "assigned"
              /\ requests'[r].assigned_drone_id = d
              /\ HasFlight(active_flights', d)
              /\ GetFlight(active_flights', d).request_ids = <<r>>) =>
                 /\ Eligible(drones[d])
                 /\ drones[d].emergency_drone = RequestIsEmergency(requests[r])
                 /\ \A e \in DOMAIN drones :
                        (/\ Eligible(drones[e])
                         /\ drones[e].emergency_drone = RequestIsEmergency(requests[r])) =>
                            /\ AllDistTable[requests[r].requester_location_id]
                                           [drones[d].current_location_id]
                                   <= AllDistTable[requests[r].requester_location_id]
                                                  [drones[e].current_location_id]
                            /\ drones[e].current_location_id = drones[d].current_location_id
                                   => d <= e
       /\ \A t \in Threads, r \in DOMAIN requests :
             (/\ pc[t] = "pass_loop"
              /\ frame'[t].temp_queue = Append(frame[t].temp_queue, r)
              /\ drones' = drones) =>
                 \A e \in DOMAIN drones :
                     ~(/\ Eligible(drones[e])
                       /\ drones[e].emergency_drone = RequestIsEmergency(requests[r])
                       /\ requests[r].requester_location_id \in Nodes
                       /\ AllDistTable[requests[r].requester_location_id]
                                      [drones[e].current_location_id] < Inf)]_vars

\* a request flies with drone 1 while drone 2, of the same type, waits
\* eligible at the location drone 1 took off from
C38_LowerIdTakenOfTwoAtLocation ==
    \E r \in DOMAIN requests :
        /\ Len(drones) = 2
        /\ requests[r].status = "assigned"
        /\ requests[r].assigned_drone_id = 1
        /\ HasFlight(active_flights, 1)
        /\ GetFlight(active_flights, 1).request_ids = <<r>>
        /\ Eligible(drones[2])
        /\ drones[2].emergency_drone = drones[1].emergency_drone
        /\ drones[2].current_location_id = GetFlight(active_flights, 1).route[1]
        /\ drones[1].current_location_id = GetFlight(active_flights, 1).route[1]

\* C39: request ids are unique under concurrent create_request calls: two
\* calls in progress never hold the same id for the requests they created,
\* and the request a call has stored stays in the table under the id the
\* call returns.
C39_ConcurrentCallsCreateDistinctRequests ==
    /\ \A t1 \in Threads, t2 \in Threads :
           (/\ t1 # t2
            /\ frame[t1].returns # None
            /\ frame[t2].returns # None) => frame[t1].returns # frame[t2].returns
    /\ \A t \in Threads :
           (pc[t] \in {"create_increment", "pass_begin", "pass_loop"}
                /\ frame[t].returns # None) =>
               /\ frame[t].returns \in DOMAIN requests
               /\ requests[frame[t].returns].requester_location_id
                      = frame[t].request.requester_location_id

\* the paths without a repeated location from s to g in the graph adj, and
\* their lengths
SimplePaths(adj, s, g) ==
    {p \in UNION {[1 .. k -> Nodes] : k \in 1 .. Cardinality(Nodes)} :
        /\ p[1] = s
        /\ p[Len(p)] = g
        /\ \A i \in 1 .. Len(p) : \A k \in 1 .. Len(p) : i # k => p[i] # p[k]
        /\ \A i \in 1 .. Len(p) - 1 :
               \E k \in 1 .. Len(adj[p[i]]) : adj[p[i]][k][1] = p[i + 1]}

RECURSIVE PathLength(_, _, _)
PathLength(adj, p, i) ==
    IF i >= Len(p) THEN 0
    ELSE (CHOOSE e \in {adj[p[i]][k] : k \in 1 .. Len(adj[p[i]])} : e[1] = p[i + 1])[2]
             + PathLength(adj, p, i + 1)

\* C40: find_second_shortest_path returns a path of least length among the
\* paths from start to target other than the shortest path whenever there is
\* one, also when the shortest path is a single pathway, and the empty path
\* with infinite distance only when there is none.
C40_SecondShortestIsBestAlternative ==
    direct_call.pc = "found" =>
        LET adj == direct_call.adjacency_list
            alternatives ==
                SimplePaths(adj, direct_call.start_id, direct_call.target_id)
                    \ {ShortestPathIn(adj, direct_call.start_id,
                                      direct_call.target_id).path}
        IN IF alternatives = {}
           THEN direct_call.path = << >> /\ direct_call.dist = Inf
           ELSE /\ direct_call.path \in alternatives
                /\ direct_call.dist = PathLength(adj, direct_call.path, 1)
                /\ \A p \in alternatives : direct_call.dist <= PathLength(adj, p, 1)

====
